---- MODULE Spec2Model ----
(***************************************************************************)
(* Model of the text engine of the resolver notepad: the word-wrap layout  *)
(* (src/src/text/layout.rs) and the Text buffer with its position mapping, *)
(* navigation and editing operations (src/src/text/mod.rs).                *)
(*                                                                         *)
(* A text is a sequence of codepoints.  The Rust String is a byte string,  *)
(* so every String operation of the source (insert, remove, replace_range, *)
(* slicing) is modelled through byte offsets and panics when an offset is  *)
(* not a char boundary, as the standard library does.                      *)
(***************************************************************************)
EXTENDS Integers, Sequences, FiniteSets, TLC

\* Bounds of the exploration.
MaxLen   == 3     \* longest text a call is made on, in codepoints
MaxWidth == 3     \* widest wrap width
MaxScanLen == 3   \* longest input given to a Scanner, in chars

\* usize, narrowed: only the wrap-around of idx - 1 and idx + 1 matters.
USIZE_MAX == 65535

(***************************************************************************)
(* Codepoints.  "a" is U+0061, "E" stands for U+00C9 (2 bytes), " " is the *)
(* space, "M" stands for U+2003 EM SPACE (whitespace, 3 bytes), "\n" is    *)
(* the newline and NUL is the '\0' sentinel of the source.                 *)
(***************************************************************************)
NUL == "NUL"

Chars == {"a", "E", " ", "M", "\n"}

is_whitespace(c) == c \in {" ", "M", "\n"}

len_utf8(c) == CASE c = "E" -> 2 [] c = "M" -> 3 [] OTHER -> 1

is_break(c) == c = "\n"

min(a, b) == IF a < b THEN a ELSE b

max(a, b) == IF a > b THEN a ELSE b

\* All texts of at most n codepoints.
Strings(n) == UNION {[1..k -> Chars] : k \in 0..n}

(***************************************************************************)
(* The byte view of a String.                                              *)
(***************************************************************************)
RECURSIVE ByteLen(_)
ByteLen(s) == IF s = <<>> THEN 0 ELSE len_utf8(Head(s)) + ByteLen(Tail(s))

\* Byte offset of codepoint index i (the byte length of the first i chars).
BytePrefix(s, i) == ByteLen(SubSeq(s, 1, i))

\* str::is_char_boundary
is_char_boundary(s, off) == \E i \in 0..Len(s) : BytePrefix(s, i) = off

\* The number of codepoints before a byte offset that is a char boundary.
CharsBefore(s, off) == CHOOSE i \in 0..Len(s) : BytePrefix(s, i) = off

\* &s[b0..b1] is defined (does not panic).
SliceOk(s, b0, b1) == b0 <= b1 /\ is_char_boundary(s, b0) /\ is_char_boundary(s, b1)

\* &s[b0..b1], where defined.
Slice(s, b0, b1) == SubSeq(s, CharsBefore(s, b0) + 1, CharsBefore(s, b1))

(***************************************************************************)
(* layout (src/src/text/layout.rs)                                         *)
(***************************************************************************)
MkLine(num, coff, boff, cext, bext, chars, bytes, hard) ==
  [num |-> num, coff |-> coff, boff |-> boff, cext |-> cext, bext |-> bext,
   chars |-> chars, bytes |-> bytes, hard |-> hard]

LayoutInit ==
  [l |-> <<>>, ac |-> 0, ab |-> 0, lc |-> 0, lb |-> 0, wc |-> 0, wb |-> 0,
   rc |-> 0, rb |-> 0, ly |-> 0, p |-> NUL]

\* The boundary bookkeeping at the head of the loop body.
LayoutMark(s, c) ==
  LET hard == is_break(c)
      s1 == IF hard
            THEN [s EXCEPT !.rc = IF ~is_whitespace(s.p) THEN s.lc ELSE @,
                           !.rb = IF ~is_whitespace(s.p) THEN s.lb ELSE @,
                           !.wc = s.lc,
                           !.wb = s.lb]
            ELSE s
  IN  IF is_whitespace(c)
      THEN IF ~is_whitespace(s1.p)
           THEN [s1 EXCEPT !.wc = s1.lc, !.wb = s1.lb]
           ELSE s1
      ELSE IF is_whitespace(s1.p)
           THEN [s1 EXCEPT !.rc = s1.lc, !.rb = s1.lb]
           ELSE s1

\* let bc / bb: the displayed width of a closed line.
BreakWidth(hard, w, l) == IF hard \/ w > 0 THEN w ELSE l

\* let cc / cb: the consumed width of a closed line.
ConsumeWidth(hard, r, l) == IF ~hard /\ r > 0 THEN r ELSE l

\* A faulty condition, which closes a line only at a '\n'.
LayoutClosesHard(hard, lc, width) == hard

\* if hard || lc >= width
LayoutCloses(hard, lc, width) == hard \/ lc >= width

\* A faulty closing of a line, which forgets the remainder (lc, lb) that the
\* source carries over to the next line.
LayoutCloseNoCarry(s, hard) ==
  LET bc == BreakWidth(hard, s.wc, s.lc)
      bb == BreakWidth(hard, s.wb, s.lb)
      cc == ConsumeWidth(hard, s.rc, s.lc)
      cb == ConsumeWidth(hard, s.rb, s.lb)
  IN  [l  |-> Append(s.l, MkLine(s.ly, s.ac, s.ab, s.ac + cc, s.ab + cb, bc, bb, hard)),
       ly |-> s.ly + 1,
       ac |-> s.ac + cc,
       ab |-> s.ab + cb,
       lc |-> 0,
       lb |-> 0,
       wc |-> 0, wb |-> 0, rc |-> 0, rb |-> 0,
       p  |-> NUL]

\* The closing of a line: push it and carry the remainder over.
LayoutClose(s, hard) ==
  LET bc == BreakWidth(hard, s.wc, s.lc)
      bb == BreakWidth(hard, s.wb, s.lb)
      cc == ConsumeWidth(hard, s.rc, s.lc)
      cb == ConsumeWidth(hard, s.rb, s.lb)
  IN  [l  |-> Append(s.l, MkLine(s.ly, s.ac, s.ab, s.ac + cc, s.ab + cb, bc, bb, hard)),
       ly |-> s.ly + 1,
       ac |-> s.ac + cc,
       ab |-> s.ab + cb,
       lc |-> s.lc - cc,
       lb |-> s.lb - cb,
       wc |-> 0, wb |-> 0, rc |-> 0, rb |-> 0,
       p  |-> NUL]

\* A faulty iteration, which advances the byte width by one per codepoint.
LayoutStepOneByte(s, c, width) ==
  LET hard == is_break(c)
      s2   == LayoutMark(s, c)
      s3   == [s2 EXCEPT !.lc = @ + 1, !.lb = @ + 1]
  IN  IF LayoutCloses(hard, s3.lc, width)
      THEN LayoutClose(s3, hard)
      ELSE [s3 EXCEPT !.p = c]

\* One iteration of `for c in text.chars()`.
LayoutStep(s, c, width) ==
  LET hard == is_break(c)
      s2   == LayoutMark(s, c)
      s3   == [s2 EXCEPT !.lc = @ + 1, !.lb = @ + len_utf8(c)]
  IN  IF LayoutCloses(hard, s3.lc, width)
      THEN LayoutClose(s3, hard)
      ELSE [s3 EXCEPT !.p = c]

RECURSIVE LayoutLoop(_, _, _, _)
LayoutLoop(text, i, width, s) ==
  IF i > Len(text) THEN s
  ELSE LayoutLoop(text, i + 1, width, LayoutStep(s, text[i], width))

\* The trailing partial line.
LayoutTail(s) ==
  IF s.lc > 0
  THEN Append(s.l, MkLine(s.ly, s.ac, s.ab, s.ac + s.lc, s.ab + s.lb, s.lc, s.lb, FALSE))
  ELSE s.l

layout(text, width) == LayoutTail(LayoutLoop(text, 1, width, LayoutInit))

(***************************************************************************)
(* Pos, Line and the results of the operations (src/src/text/mod.rs)       *)
(***************************************************************************)
Pos(index, x, y) == [index |-> index, x |-> x, y |-> y]

ZERO_POS == Pos(0, 0, 0)

\* A returned Pos, Option<Pos> of None, or a panic of the call.
SomePos(p) == [kind |-> "pos", pos |-> p, str |-> <<>>]

NonePos == [kind |-> "none", pos |-> ZERO_POS, str |-> <<>>]

Panic == [kind |-> "panic", pos |-> ZERO_POS, str |-> <<>>]

\* Option<&str> of Some.
SomeStr(t) == [kind |-> "str", pos |-> ZERO_POS, str |-> t]

\* Option<usize> of None.
None == -1

\* usize arithmetic: the build either checks for overflow (and panics) or wraps.
Overflows(n) == n < 0 \/ n > USIZE_MAX

Wrap(n) == n % (USIZE_MAX + 1)

Line_width(l) == l.cext - l.coff

Line_right(l) == l.coff + l.chars

Line_contains(l, idx) == idx >= l.coff /\ idx < l.cext

\* Line::text: &text[boff..boff + bytes]
Line_text(l, text) == Slice(text, l.boff, l.boff + l.bytes)

\* Line::pos, for a line that contains idx.
Line_pos(l, width, idx) ==
  LET eix == idx - l.coff
  IN  IF eix < width THEN Pos(idx, eix, l.num) ELSE Pos(idx, width, l.num)

(***************************************************************************)
(* Text: the buffer is the record self = [text, width, lines, sel, loc].   *)
(***************************************************************************)
NoSel == <<>>

Range(a, b) == <<a, b>>

\* Text::new_with_str; Text::new is the case of the empty text.
new_with_str(width, text) ==
  [text |-> text, width |-> width, lines |-> layout(text, width), sel |-> NoSel, loc |-> 0]

len(self) ==
  IF Len(self.lines) = 0 THEN 0 ELSE self.lines[Len(self.lines)].cext

\* The position in self.lines of the first line that contains idx, 0 for None.
line_with_index(self, idx) ==
  IF \E i \in 1..Len(self.lines) : Line_contains(self.lines[i], idx)
  THEN CHOOSE i \in 1..Len(self.lines) :
         /\ Line_contains(self.lines[i], idx)
         /\ \A j \in 1..(i - 1) : ~Line_contains(self.lines[j], idx)
  ELSE 0

\* The byte offset of codepoint idx, counted along the displayed text of its
\* line; past the displayed text it is the visual end of the line.
OffsetInLineClamped(line, lt, rem) ==
  IF rem <= Len(lt) THEN line.boff + BytePrefix(lt, rem) ELSE line.boff + line.bytes

offset_for_index(self, idx) ==
  LET li == line_with_index(self, idx)
  IN  IF li = 0 THEN None
      ELSE LET line == self.lines[li]
               rem  == idx - line.coff
           IN  IF rem = 0 THEN line.boff
               ELSE OffsetInLineClamped(line, Line_text(line, self.text), rem)

next_offset(self) ==
  IF Len(self.lines) > 0 THEN self.lines[Len(self.lines)].bext ELSE 0

reflow_stale(self) == self

reflow(self) == [self EXCEPT !.lines = layout(self.text, self.width)]

\* The fall-through of Text::index, after no line contained idx.
IndexPastLines(self, idx) ==
  LET n    == Len(self.lines)
      last == self.lines[n]
  IN  IF last.hard \/ Line_width(last) + 1 > self.width
      THEN Pos(idx, 0, n)
      ELSE Pos(idx, Line_width(last), last.num)

\* A faulty index, which does not clamp.
IndexNoClamp(self, idx) == idx

\* let idx = min(self.len(), idx)
IndexClamp(self, idx) == min(len(self), idx)

index(self, idx) ==
  IF len(self) = 0 THEN ZERO_POS
  ELSE IF idx = 0 THEN ZERO_POS
  ELSE LET i  == IndexClamp(self, idx)
           li == line_with_index(self, i)
       IN  IF li # 0 THEN Line_pos(self.lines[li], self.width, i)
           ELSE IndexPastLines(self, i)

\* A faulty up, which keeps the column whatever the width of the row above.
up_no_clamp(self, idx) ==
  LET pos == index(self, idx)
  IN  IF pos.y = 0 THEN ZERO_POS
      ELSE LET l == self.lines[pos.y]
           IN  Pos(l.coff + pos.x, pos.x, pos.y - 1)

up(self, idx) ==
  LET pos == index(self, idx)
  IN  IF pos.y = 0 THEN ZERO_POS
      ELSE LET l == self.lines[pos.y]   \* lines[pos.y - 1] of the 0-based source
           IN  IF l.chars > pos.x
               THEN Pos(l.coff + pos.x, pos.x, pos.y - 1)
               ELSE Pos(Line_right(l), l.chars, pos.y - 1)

\* down, on the last line.
DownAtLast(l, y) ==
  IF l.hard THEN Pos(l.cext, 0, y + 1) ELSE Pos(l.cext, l.chars, y)

down(self, idx) ==
  LET nl == Len(self.lines)
  IN  IF nl = 0 THEN ZERO_POS
      ELSE LET pos == index(self, idx)
               y   == min(nl - 1, pos.y)
               n   == y + 1
           IN  IF n >= nl THEN DownAtLast(self.lines[y + 1], y)
               ELSE LET l == self.lines[n + 1]
                    IN  IF l.chars > pos.x
                        THEN Pos(l.coff + pos.x, pos.x, n)
                        ELSE Pos(l.coff + l.chars, l.chars, n)

\* A faulty left, which steps from idx without the guard against idx = 0 and
\* lands on idx itself.
left_no_step(self, idx) == index(self, idx)

left(self, idx) == IF idx > 0 THEN index(self, idx - 1) ELSE ZERO_POS

\* right computes idx + 1 in usize; `checks` is the build's overflow-checks.
right(self, idx, checks) ==
  IF Overflows(idx + 1)
  THEN IF checks THEN Panic ELSE SomePos(index(self, Wrap(idx + 1)))
  ELSE SomePos(index(self, idx + 1))

home(self, idx) ==
  LET nl == Len(self.lines)
  IN  IF nl = 0 THEN ZERO_POS
      ELSE LET pos == index(self, idx)
           IN  IF pos.y >= nl THEN Pos(self.lines[nl].cext, 0, nl)
               ELSE Pos(self.lines[pos.y + 1].coff, 0, pos.y)

end(self, idx) ==
  LET nl == Len(self.lines)
  IN  IF nl = 0 THEN ZERO_POS
      ELSE LET pos == index(self, idx)
           IN  IF pos.y >= nl THEN Pos(self.lines[nl].cext, 0, nl)
               ELSE LET l == self.lines[pos.y + 1]
                    IN  Pos(Line_right(l), l.chars, pos.y)

(***************************************************************************)
(* Word motions                                                            *)
(***************************************************************************)
match_word(curr, prev) ==
  curr = NUL \/ (~is_whitespace(curr) /\ is_whitespace(prev))

match_word_boundary(curr, prev) ==
  (curr = NUL \/ is_whitespace(curr)) /\ (prev = NUL \/ ~is_whitespace(prev))

\* check: impl Fn(char, char) -> bool, one of the two predicates, by name.
CheckFn(check, curr, prev) ==
  IF check = "match_word" THEN match_word(curr, prev)
  ELSE match_word_boundary(curr, prev)

Reverse(s) == [i \in 1..Len(s) |-> s[Len(s) + 1 - i]]

\* The loop of find_fwd / find_rev over the chars `cs` in scan order: the
\* number of chars passed before the predicate matched, None if it never did.
ScanMatch(cs, check) ==
  LET prev(k) == IF k = 1 THEN NUL ELSE cs[k - 1]
      hits    == {k \in 1..Len(cs) : CheckFn(check, cs[k], prev(k))}
  IN  IF hits # {} THEN (CHOOSE k \in hits : \A m \in hits : k <= m) - 1
      ELSE IF CheckFn(check, NUL, prev(Len(cs) + 1)) THEN Len(cs)
      ELSE None

find_fwd(self, idx, check) ==
  LET bix == offset_for_index(self, idx)
  IN  IF bix = None THEN NonePos
      ELSE IF ~SliceOk(self.text, bix, ByteLen(self.text)) THEN Panic
      ELSE LET coff == ScanMatch(Slice(self.text, bix, ByteLen(self.text)), check)
           IN  IF coff = None THEN NonePos ELSE SomePos(index(self, idx + coff))

\* find_rev computes idx - coff in usize; `checks` is the build's overflow-checks.
find_rev(self, idx, check, checks) ==
  LET bix == offset_for_index(self, idx)
  IN  IF bix = None THEN NonePos
      ELSE IF ~SliceOk(self.text, 0, bix) THEN Panic
      ELSE LET coff == ScanMatch(Reverse(Slice(self.text, 0, bix)), check)
           IN  IF coff = None THEN NonePos
               ELSE IF Overflows(idx - coff) /\ checks THEN Panic
               ELSE SomePos(index(self, Wrap(idx - coff)))

Movements ==
  {"Up", "Right", "Down", "Left", "Word", "StartOfWord", "EndOfWord",
   "StartOfLine", "EndOfLine"}

Operations == {"Move", "Select", "Delete"}

\* Text::to; Word and EndOfWord compute idx + 1 in usize.
to(self, idx, mvmt, checks) ==
  CASE mvmt = "Up"          -> SomePos(up(self, idx))
    [] mvmt = "Right"       -> right(self, idx, checks)
    [] mvmt = "Down"        -> SomePos(down(self, idx))
    [] mvmt = "Left"        -> SomePos(left(self, idx))
    [] mvmt = "StartOfLine" -> SomePos(home(self, idx))
    [] mvmt = "EndOfLine"   -> SomePos(end(self, idx))
    [] mvmt = "Word"        ->
         IF Overflows(idx + 1) /\ checks THEN Panic
         ELSE find_fwd(self, Wrap(idx + 1), "match_word")
    [] mvmt = "StartOfWord" ->
         IF idx = 0 THEN NonePos ELSE find_rev(self, idx - 1, "match_word_boundary", checks)
    [] mvmt = "EndOfWord"   ->
         IF Overflows(idx + 1) /\ checks THEN Panic
         ELSE find_fwd(self, Wrap(idx + 1), "match_word_boundary")

(***************************************************************************)
(* Editing.  An operation yields the buffer after it and what it returns.  *)
(***************************************************************************)
Result(self, ret) == [self |-> self, ret |-> ret]

\* String::insert at a byte offset that is a char boundary.
StrInsert(t, off, c) ==
  LET i == CharsBefore(t, off)
  IN  SubSeq(t, 1, i) \o <<c>> \o SubSeq(t, i + 1, Len(t))

\* String::remove panics unless a char starts at the byte offset.
StrRemoveOk(t, off) == is_char_boundary(t, off) /\ off < ByteLen(t)

StrRemove(t, off) ==
  LET i == CharsBefore(t, off)
  IN  SubSeq(t, 1, i) \o SubSeq(t, i + 2, Len(t))

\* String::replace_range(start..end, "")
StrCut(t, b0, b1) ==
  SubSeq(t, 1, CharsBefore(t, b0)) \o SubSeq(t, CharsBefore(t, b1) + 1, Len(t))

\* insert: the byte offset the character goes to.
InsertOffset(self, idx) ==
  LET offset == offset_for_index(self, idx)
  IN  IF offset = None THEN next_offset(self) ELSE offset

insert(self, idx, c, checks) ==
  LET offset == InsertOffset(self, idx)
  IN  IF ~is_char_boundary(self.text, offset) THEN Result(self, Panic)
      ELSE LET s1 == reflow([self EXCEPT !.text = StrInsert(self.text, offset, c)])
           IN  IF Overflows(idx + 1) /\ checks THEN Result(s1, Panic)
               ELSE Result(s1, SomePos(index(s1, Wrap(idx + 1))))

\* delete: what is returned after the bytes start..end were removed.
DeleteRet(s1, a, start) == SomePos(index(s1, start))

delete(self, a, b) ==
  LET start == offset_for_index(self, a)
  IN  IF start = None THEN Result(self, NonePos)
      ELSE LET e   == offset_for_index(self, b)
               endb == IF e = None THEN next_offset(self) ELSE e
           IN  IF ~SliceOk(self.text, start, endb) THEN Result(self, Panic)
               ELSE LET s1 == reflow([self EXCEPT !.text = StrCut(self.text, start, endb)])
                    IN  Result(s1, DeleteRet(s1, a, start))

\* A faulty select, which replaces the selection even when asked to extend it.
select_replace(self, rng, extend) ==
  IF rng = NoSel THEN Result([self EXCEPT !.sel = NoSel], NonePos)
  ELSE LET dst == IF rng[2] > self.loc THEN rng[2] ELSE rng[1]
           s1  == [self EXCEPT !.sel = rng]
       IN  Result(s1, SomePos(index(s1, dst)))

select(self, rng, extend) ==
  IF rng = NoSel THEN Result([self EXCEPT !.sel = NoSel], NonePos)
  ELSE LET sel == IF extend /\ self.sel # NoSel
                  THEN Range(min(self.sel[1], rng[1]), max(self.sel[2], rng[2]))
                  ELSE rng
           dst == IF rng[2] > self.loc THEN rng[2] ELSE rng[1]
           s1  == [self EXCEPT !.sel = sel]
       IN  Result(s1, SomePos(index(s1, dst)))

selected_text(self) ==
  IF self.sel = NoSel THEN NonePos
  ELSE LET s     == offset_for_index(self, self.sel[1])
           start == IF s = None THEN 0 ELSE s
           e     == offset_for_index(self, self.sel[2])
           endb  == IF e = None THEN len(self) ELSE e
       IN  IF ~SliceOk(self.text, start, endb) THEN Panic
           ELSE SomeStr(Slice(self.text, start, endb))

\* backspace computes idx - 1 in usize before anything else.
backspace(self, idx, checks) ==
  IF Overflows(idx - 1) /\ checks THEN Result(self, Panic)
  ELSE LET eix    == Wrap(idx - 1)
           offset == offset_for_index(self, eix)
       IN  IF offset = None THEN Result(self, SomePos(ZERO_POS))
           ELSE IF ~StrRemoveOk(self.text, offset) THEN Result(self, Panic)
           ELSE LET s1 == reflow([self EXCEPT !.text = StrRemove(self.text, offset)])
                IN  Result(s1, SomePos(index(s1, eix)))

set_text(self, t) == Result(reflow([self EXCEPT !.text = t]), NonePos)

edit(self, idx, mvmt, operation, checks) ==
  LET dest == to(self, idx, mvmt, checks)
  IN  IF dest.kind # "pos" THEN Result(self, dest)
      ELSE LET lo == min(idx, dest.pos.index)
               hi == max(idx, dest.pos.index)
           IN  CASE operation = "Move"   -> Result(self, dest)
                 [] operation = "Select" -> select(self, Range(lo, hi), TRUE)
                 [] operation = "Delete" -> delete(self, lo, hi)

(***************************************************************************)
(* The rdl scanner (src/src/rdl/scan.rs).  A Scanner is a record: the     *)
(* input text, the number of chars its iterator `data` has yielded, the   *)
(* look-ahead buffer `tokens`, the peeked char and the byte index.        *)
(* Operations yield the scanner after them (sc), an error kind (err, ""   *)
(* for Ok) and a value (val).                                             *)
(***************************************************************************)
ESCAPE == "\\"
LPAREN == "("
RPAREN == ")"
EQUAL  == "="

\* Option<char>::None
NoChar == "None"

\* char::is_alphabetic and char::is_digit(10) on the characters used here.
is_alphabetic(c) ==
  c \in {"a", "b", "c", "d", "g", "k", "n", "p", "s", "t", "x", "y", "E"}

is_digit(c) == c \in {"0", "1", "2", "3"}

is_ident(c) == is_alphabetic(c) \/ is_digit(c) \/ c = "_"

is_ident_start(c) == is_alphabetic(c) \/ c = "_"

is_number_start(c) == is_digit(c)

is_operator(c) == c \in {"+", "-", "*", "/", "%"}

is_symbol(c) == c \in {EQUAL, LPAREN, RPAREN}

\* The char predicates the scanner passes as closures, by name.
CharIs(cls, c) ==
  CASE cls = "ident"       -> is_ident(c)
    [] cls = "ident_start" -> is_ident_start(c)
    [] cls = "digit"       -> is_digit(c)
    [] cls = "operator"    -> is_operator(c)
    [] cls = "whitespace"  -> is_whitespace(c)
    [] cls = "escape"      -> c = ESCAPE
    [] OTHER               -> FALSE

Token(ttype, ttext, start, stop) ==
  [ttype |-> ttype, ttext |-> ttext, range |-> <<start, stop>>]

Scanner_new(t) ==
  [text |-> t, data |-> 0, tokens |-> <<>>, peek |-> NoChar, index |-> 0]

Ok(sc, val) == [sc |-> sc, err |-> "", val |-> val]

Err(sc, err) == [sc |-> sc, err |-> err, val |-> <<>>]

\* The element of a one-element set.  { e(x) : x \in {v} } stands for
\* "let x = v; e(x)" with v computed once.
The(S) == CHOOSE x \in S : TRUE

read(sc) ==
  IF sc.data < Len(sc.text)
  THEN Ok([sc EXCEPT !.data = @ + 1], sc.text[sc.data + 1])
  ELSE Ok(sc, NoChar)

peek(sc) ==
  The({ IF s.peek = NoChar
        THEN The({ Ok([r.sc EXCEPT !.peek = r.val], r.val) : r \in {read(s)} })
        ELSE Ok(s, s.peek) : s \in {sc} })

skip(sc) ==
  The({ The({ [r.sc EXCEPT !.peek = r.val] :
              r \in {read(IF s.peek # NoChar
                          THEN [s EXCEPT !.index = @ + len_utf8(s.peek)]
                          ELSE s)} }) : s \in {sc} })

next(sc) == The({ Ok(skip(n.sc), n.val) : n \in {peek(sc)} })

expect_fn(sc, cls) ==
  The({ IF p.val # NoChar /\ CharIs(cls, p.val)
        THEN Ok(skip(p.sc), p.val)
        ELSE Ok(p.sc, NoChar) : p \in {peek(sc)} })

assert_fn(sc, cls) ==
  The({ IF r.val # NoChar THEN r ELSE Err(r.sc, "AssertionFailed") :
        r \in {expect_fn(sc, cls)} })

\* while let Some(c) = self.peek() { if check(c) { buf.push(c) } else { break }; self.skip() }
RECURSIVE TakeWhile(_, _, _)
TakeWhile(sc, cls, buf) ==
  The({ IF p.val # NoChar /\ CharIs(cls, p.val)
        THEN TakeWhile(skip(p.sc), cls, Append(b, p.val))
        ELSE Ok(p.sc, b) : p \in {peek(sc)}, b \in {buf} })

whitespace(sc) == TakeWhile(sc, "whitespace", <<>>)

ident(sc) ==
  The({ IF a.err # "" THEN a ELSE TakeWhile(a.sc, "ident", <<a.val>>) :
        a \in {assert_fn(sc, "ident_start")} })

integer(sc) ==
  The({ IF a.err # "" THEN a ELSE TakeWhile(a.sc, "digit", <<a.val>>) :
        a \in {assert_fn(sc, "digit")} })

\* number after its integer part i: the fraction, when a '.' follows.
NumberFraction(i) ==
  The({ IF p.val = "."
        THEN The({ IF f.err # "" THEN f
                   ELSE Ok(f.sc, i.val \o <<".">> \o f.val) :
                   f \in {integer(skip(p.sc))} })
        ELSE Ok(p.sc, i.val) : p \in {peek(i.sc)} })

number(sc) ==
  The({ IF i.err # "" THEN i ELSE NumberFraction(i) : i \in {integer(sc)} })

\* The chars that may follow the escape char, and what each stands for.
EscapeOf(c) ==
  CASE c = "n"    -> "\n"
    [] c = "r"    -> "\r"
    [] c = "\""   -> "\""
    [] c = "{"    -> "{"
    [] c = LPAREN -> "("
    [] c = "@"    -> "@"
    [] c = "/"    -> "/"
    [] c = ESCAPE -> "\\"
    [] OTHER      -> NoChar

\* escape after its escape char: the char that follows decides.
EscapeNext(sc) ==
  The({ IF n.val = NoChar THEN Err(n.sc, "EndOfInput")
        ELSE IF EscapeOf(n.val) = NoChar THEN Err(n.sc, "SyntaxError")
        ELSE Ok(n.sc, <<EscapeOf(n.val)>>) : n \in {next(sc)} })

escape(sc) ==
  The({ IF a.err # "" THEN a ELSE EscapeNext(a.sc) :
        a \in {assert_fn(sc, "escape")} })

push(sc, tok) == [sc EXCEPT !.tokens = Append(@, tok)]

\* What every scan_* does with the text r it gathered from index idx on:
\* pass the error on, or push the token.
PushToken(ttype, idx, r) ==
  IF r.err # "" THEN r
  ELSE Ok(push(r.sc, Token(ttype, r.val, idx, r.sc.index)), <<>>)

scan_ident(sc) ==
  The({ PushToken("Ident", s.index, r) : s \in {sc}, r \in {ident(sc)} })

scan_number(sc) ==
  The({ PushToken("Number", s.index, r) : s \in {sc}, r \in {number(sc)} })

scan_operator(sc) ==
  The({ PushToken("Operator", s.index, r) :
        s \in {sc}, r \in {TakeWhile(sc, "operator", <<>>)} })

scan_whitespace(sc) ==
  The({ PushToken("Whitespace", s.index, r) :
        s \in {sc}, r \in {whitespace(sc)} })

SymbolType(c) ==
  CASE c = LPAREN -> "LParen"
    [] c = RPAREN -> "RParen"
    [] c = EQUAL  -> "Assign"
    [] OTHER      -> "Symbol"

scan_symbol(sc) ==
  The({ IF n.val = NoChar THEN Ok(n.sc, <<>>)
        ELSE Ok(push(n.sc, Token(SymbolType(n.val), <<n.val>>, s.index, n.sc.index)),
                <<>>) : s \in {sc}, n \in {next(sc)} })

scan_semantic(sc) ==
  The({ IF p.val = NoChar THEN Err(p.sc, "TokenNotMatched")
        ELSE IF is_ident_start(p.val)  THEN scan_ident(p.sc)
        ELSE IF is_number_start(p.val) THEN scan_number(p.sc)
        ELSE IF is_operator(p.val)     THEN scan_operator(p.sc)
        ELSE IF is_whitespace(p.val)   THEN scan_whitespace(p.sc)
        ELSE IF is_symbol(p.val)       THEN scan_symbol(p.sc)
        ELSE Err(p.sc, "TokenNotMatched") : p \in {peek(sc)} })

\* The loop of scan_verbatim: the scanner and the text gathered when it
\* breaks, or the error of an escape sequence.
RECURSIVE VerbatimLoop(_, _)
VerbatimLoop(sc, buf) ==
  The({ IF p.val = NoChar \/ is_ident_start(p.val) \/ is_number_start(p.val)
           \/ is_operator(p.val) \/ is_symbol(p.val)
        THEN Ok(p.sc, b)
        ELSE IF p.val = ESCAPE
        THEN The({ IF x.err # "" THEN x ELSE VerbatimLoop(x.sc, b \o x.val) :
                   x \in {escape(p.sc)} })
        ELSE VerbatimLoop(skip(p.sc), Append(b, p.val)) :
        p \in {peek(sc)}, b \in {buf} })

scan_verbatim(sc) ==
  The({ PushToken("Verbatim", s.index, r) :
        s \in {sc}, r \in {VerbatimLoop(sc, <<>>)} })

\* scan once a char is known to follow.
ScanSome(sc) ==
  The({ IF r.err = "" THEN r ELSE scan_verbatim(r.sc) : r \in {scan_semantic(sc)} })

scan(sc) ==
  The({ IF p.val # NoChar THEN ScanSome(p.sc) ELSE Ok(p.sc, <<>>) :
        p \in {peek(sc)} })

\* Option<TType>::None and Option<Range>::None
NoToken == "None"

\* la_fill that scans whether or not the buffer is empty.
la_fill_always(sc) == scan(sc).sc

\* What la and la_range do before they read the buffer.
la_fill(sc) == The({ IF Len(s.tokens) = 0 THEN scan(s).sc ELSE s : s \in {sc} })

la(sc) ==
  The({ Ok(s, IF Len(s.tokens) > 0 THEN s.tokens[1].ttype ELSE NoToken) :
        s \in {la_fill(sc)} })

la_range(sc) ==
  The({ Ok(s, IF Len(s.tokens) > 0 THEN s.tokens[1].range ELSE NoToken) :
        s \in {la_fill(sc)} })

step(sc) ==
  The({ IF Len(s.tokens) > 0
        THEN Ok([s EXCEPT !.tokens = Tail(@)], s.tokens[1])
        ELSE Ok(s, NoToken) : s \in {sc} })

\* The TType predicates the parser and the tests pass as closures, by name:
\* the name of one TType stands for equality with it.
TTypeIs(check, ttype) ==
  CASE check = "Whitespace|Verbatim" -> ttype \in {"Whitespace", "Verbatim"}
    [] OTHER                         -> ttype = check

RECURSIVE DiscardLoop(_, _, _)
DiscardLoop(sc, check, n) ==
  The({ IF l.val # NoToken /\ TTypeIs(check, l.val)
        THEN DiscardLoop(step(l.sc).sc, check, n + 1)
        ELSE Ok(l.sc, n) : l \in {la(sc)} })

discard_fn(sc, check) == DiscardLoop(sc, check, 0)

discard(sc, which) == discard_fn(sc, which)

\* token once the buffer was filled: r is what scan returned.
TokenTake(r) ==
  IF r.err # "" THEN r
  ELSE IF Len(r.sc.tokens) > 0
  THEN Ok([r.sc EXCEPT !.tokens = Tail(@)], r.sc.tokens[1])
  ELSE Ok(r.sc, Token("End", <<>>, 0, 0))

token(sc) ==
  The({ TokenTake(r) :
        r \in {The({ IF Len(s.tokens) = 0 THEN scan(s) ELSE Ok(s, <<>>) :
                     s \in {sc} })} })

expect_token_fn(sc, check) ==
  The({ IF l.val = NoToken THEN Err(l.sc, "TokenNotMatched")
        ELSE IF l.val = "End" THEN Err(l.sc, "EndOfInput")
        ELSE IF TTypeIs(check, l.val) THEN token(l.sc)
        ELSE Err(l.sc, "TokenNotMatched") : l \in {la(sc)} })

expect_token(sc, expect) == expect_token_fn(sc, expect)

(***************************************************************************)
(* Numbers.  An f64 is modelled by the exact rational it stands for, a     *)
(* pair <<n, d>> in lowest terms with d > 0; rounding is not modelled.     *)
(***************************************************************************)
Abs(n) == IF n < 0 THEN -n ELSE n

RECURSIVE Gcd(_, _)
Gcd(a, b) == IF b = 0 THEN a ELSE Gcd(b, a % b)

\* n/d in lowest terms, d # 0.
Rat(n, d) ==
  The({ <<(IF d < 0 THEN -n ELSE n) \div g, Abs(d) \div g>> :
        g \in {IF n = 0 THEN Abs(d) ELSE Gcd(Abs(n), Abs(d))} })

DigitOf(c) == CASE c = "0" -> 0 [] c = "1" -> 1 [] c = "2" -> 2 [] c = "3" -> 3

RECURSIVE DigitsValue(_, _)
DigitsValue(ds, acc) ==
  IF ds = <<>> THEN acc ELSE DigitsValue(Tail(ds), 10 * acc + DigitOf(Head(ds)))

RECURSIVE Pow10(_)
Pow10(k) == IF k = 0 THEN 1 ELSE 10 * Pow10(k - 1)

\* str::parse::<f64> on the text of a Number token, [0-9]+(\.[0-9]+)?
parse_f64(txt) ==
  The({ Rat(DigitsValue(ds, 0), Pow10(IF Len(ds) = Len(txt) THEN 0
                                       ELSE Len(txt) - i)) :
        ds \in {SelectSeq(txt, is_digit)},
        i \in {CHOOSE j \in 1..(Len(txt) + 1) : j = Len(txt) + 1 \/ txt[j] = "."} })

(***************************************************************************)
(* AST nodes (src/src/rdl/exec.rs).  A Node is the tuple of its fields     *)
(* <<ntype, left, right, text, value>>, an absent field being NoField.     *)
(***************************************************************************)
NoField == <<>>

Node(ntype, lhs, rhs, txt, value) == <<ntype, lhs, rhs, txt, value>>

new_ident(name) == Node("Ident", NoField, NoField, name, NoField)

new_number(value) == Node("Number", NoField, NoField, NoField, value)

new_assign(lhs, rhs) == Node("Assign", lhs, rhs, NoField, NoField)

new_typecast(lhs, rhs) == Node("Typecast", lhs, rhs, NoField, NoField)

new_add(lhs, rhs) == Node("Add", lhs, rhs, NoField, NoField)

new_sub(lhs, rhs) == Node("Sub", lhs, rhs, NoField, NoField)

new_mul(lhs, rhs) == Node("Mul", lhs, rhs, NoField, NoField)

new_div(lhs, rhs) == Node("Div", lhs, rhs, NoField, NoField)

new_mod(lhs, rhs) == Node("Mod", lhs, rhs, NoField, NoField)

(***************************************************************************)
(* Units recognised by name (src/src/rdl/unit.rs); four of the eleven.     *)
(***************************************************************************)
NoUnit == "None"

\* char::to_lowercase on the letters used here.
to_lowercase(c) == IF c = "E" THEN "e" ELSE c

Unit_from(name) ==
  The({ CASE n = <<"t", "s", "p">>      -> "Teaspoon"
          [] n = <<"t", "b", "s", "p">> -> "Tablespoon"
          [] n = <<"g">>                -> "Gram"
          [] n = <<"k", "g">>           -> "Kilogram"
          [] OTHER                      -> NoUnit :
        n \in {[i \in 1..Len(name) |-> to_lowercase(name[i])]} })

(***************************************************************************)
(* The parser (src/src/rdl/parse.rs).  A Parser holds a Scanner only, so   *)
(* the parsing operators take and yield the scanner; val is the Expr.      *)
(***************************************************************************)
Expr(start, stop, ast) == [range |-> <<start, stop>>, ast |-> ast]

\* The Token predicates parse_primary and parse_unit pass as closures.
TokenIs(check, tok) ==
  CASE check = "Primary" -> tok.ttype \in {"Ident", "Number", "LParen"}
    [] check = "Unit"    -> tok.ttype = "Ident" /\ Unit_from(tok.ttext) # NoUnit

\* expect_token_fn as parse.rs calls it, with a check on the look-ahead Token.
expect_token_tok(sc, check) ==
  The({ IF Len(s.tokens) = 0 THEN Err(s, "TokenNotMatched")
        ELSE IF s.tokens[1].ttype = "End" THEN Err(s, "EndOfInput")
        ELSE IF TokenIs(check, s.tokens[1]) THEN token(s)
        ELSE Err(s, "TokenNotMatched") : s \in {la_fill(sc)} })

\* self.scan.discard(TType::Whitespace)
SkipWs(sc) == discard(sc, "Whitespace").sc

parse_ident(sc) ==
  The({ IF t.err # "" THEN t
        ELSE Ok(t.sc, Expr(t.val.range[1], t.val.range[2], new_ident(t.val.ttext))) :
        t \in {expect_token(sc, "Ident")} })

parse_unit(sc) ==
  The({ IF t.err # "" THEN t
        ELSE Ok(t.sc, Expr(t.val.range[1], t.val.range[2], new_ident(t.val.ttext))) :
        t \in {expect_token_tok(sc, "Unit")} })

\* The node of a binary operator, by its first char.
ArithNode(opc, lhs, rhs) ==
  CASE opc = "+" -> new_add(lhs, rhs)
    [] opc = "-" -> new_sub(lhs, rhs)
    [] opc = "*" -> new_mul(lhs, rhs)
    [] opc = "/" -> new_div(lhs, rhs)
    [] opc = "%" -> new_mod(lhs, rhs)

\* parse_primary after its expression exp was parsed from byte start on: the
\* unit that may follow.
PrimaryUnit(start, x) ==
  IF x.err # "" THEN x
  ELSE The({ IF u.err # "" THEN Ok(u.sc, x.val)
             ELSE Ok(u.sc, Expr(start, u.val.range[2],
                                new_typecast(x.val.ast, u.val.ast))) :
             u \in {parse_unit(SkipWs(x.sc))} })

RECURSIVE parse_enter(_)
RECURSIVE parse_assign(_)
RECURSIVE parse_typecast(_)
RECURSIVE parse_typecast_left(_, _)
RECURSIVE parse_arith(_)
RECURSIVE parse_arith_left(_, _)
RECURSIVE parse_primary(_)
RECURSIVE parse_expr(_)

parse_expr(sc) ==
  The({ IF x.err # "" THEN x
        ELSE The({ IF t.err # "" THEN t
                   ELSE Ok(t.sc, Expr(x.val.range[1], t.val.range[2], x.val.ast)) :
                   t \in {expect_token(x.sc, "RParen")} }) :
        x \in {parse_enter(sc)} })

\* The Expr of the token parse_primary took.
PrimaryOf(t) ==
  CASE t.val.ttype = "Ident" ->
         Ok(t.sc, Expr(t.val.range[1], t.val.range[2], new_ident(t.val.ttext)))
    [] t.val.ttype = "Number" ->
         Ok(t.sc, Expr(t.val.range[1], t.val.range[2],
                       new_number(parse_f64(t.val.ttext))))
    [] t.val.ttype = "LParen" ->
         The({ IF x.err # "" THEN x
               ELSE Ok(x.sc, Expr(t.val.range[1], x.val.range[2], x.val.ast)) :
               x \in {parse_expr(t.sc)} })
    [] OTHER -> Err(t.sc, "TokenNotMatched")

parse_primary(sc) ==
  The({ IF t.err # "" THEN t
        ELSE The({ PrimaryUnit(t.val.range[1], x) : x \in {PrimaryOf(t)} }) :
        t \in {expect_token_tok(sc, "Primary")} })

\* parse_arith_left after the operator op and the right operand r.
ArithChain(lhs, op, r) ==
  IF r.err # "" THEN r
  ELSE parse_arith_left(r.sc, Expr(lhs.range[1], r.val.range[2],
                                   ArithNode(op.ttext[1], lhs.ast, r.val.ast)))

\* parse_arith_left after the operator op: the look-ahead decides.
ArithRight(lhs, op, l) ==
  IF l.val \in {"Ident", "Number", "LParen"}
  THEN The({ ArithChain(lhs, op, r) : r \in {parse_primary(l.sc)} })
  ELSE Ok(l.sc, lhs)

parse_arith_left(sc, lhs) ==
  The({ IF op.err # "" THEN Ok(op.sc, lhs)
        ELSE The({ ArithRight(lhs, op.val, l) : l \in {la(SkipWs(op.sc))} }) :
        op \in {expect_token(SkipWs(sc), "Operator")} })

parse_arith(sc) ==
  The({ IF l.err # "" THEN l ELSE parse_arith_left(l.sc, l.val) :
        l \in {parse_primary(sc)} })

\* parse_typecast_left after the Typecast token: the unit.
TypecastUnit(lhs, u) ==
  IF u.err # "" THEN Ok(u.sc, lhs)
  ELSE Ok(u.sc, Expr(lhs.range[1], u.val.range[2],
                     new_typecast(lhs.ast, u.val.ast)))

parse_typecast_left(sc, lhs) ==
  The({ IF t.err # "" THEN parse_arith_left(t.sc, lhs)
        ELSE The({ TypecastUnit(lhs, u) : u \in {parse_unit(SkipWs(t.sc))} }) :
        t \in {expect_token(SkipWs(sc), "Typecast")} })

parse_typecast(sc) ==
  The({ IF l.err # "" THEN l ELSE parse_typecast_left(l.sc, l.val) :
        l \in {parse_arith(sc)} })

\* parse_assign after the identifier lhs and the '=': the right side.
AssignRight(lhs, r) ==
  IF r.err # "" THEN parse_typecast_left(r.sc, lhs)
  ELSE Ok(r.sc, Expr(lhs.range[1], r.val.range[2],
                     new_assign(lhs.ast, r.val.ast)))

\* parse_assign after the identifier lhs: the '='.
AssignEq(lhs, t) ==
  IF t.err # "" THEN parse_typecast_left(t.sc, lhs)
  ELSE The({ AssignRight(lhs, r) : r \in {parse_typecast(SkipWs(t.sc))} })

parse_assign(sc) ==
  The({ IF l.err # "" THEN parse_typecast(l.sc)
        ELSE The({ AssignEq(l.val, t) :
                   t \in {expect_token(SkipWs(l.sc), "Assign")} }) :
        l \in {parse_ident(SkipWs(sc))} })

parse_enter(sc) == parse_assign(sc)

parse(sc) == parse_enter(discard_fn(sc, "Whitespace|Verbatim").sc)

(***************************************************************************)
(* Values (src/src/rdl/unit.rs): an f64 and an optional unit.  The f64     *)
(* operators are exact on the rationals; a division by zero gives          *)
(* NonFinite, which every operator carries on.                             *)
(***************************************************************************)
NonFinite == <<0, 0>>

IsFinite(a) == a[2] # 0

\* The remainder of p by q with the sign of p, q # 0.
TruncRem(p, q) == (IF p < 0 THEN -1 ELSE 1) * (Abs(p) % Abs(q))

\* a + b, a - b, a * b, a / b and a % b of f64
f64_op(ntype, a, b) ==
  IF ~IsFinite(a) \/ ~IsFinite(b) THEN NonFinite
  ELSE CASE ntype = "Add" -> Rat(a[1] * b[2] + b[1] * a[2], a[2] * b[2])
         [] ntype = "Sub" -> Rat(a[1] * b[2] - b[1] * a[2], a[2] * b[2])
         [] ntype = "Mul" -> Rat(a[1] * b[1], a[2] * b[2])
         [] ntype = "Div" -> IF b[1] = 0 THEN NonFinite
                             ELSE Rat(a[1] * b[2], a[2] * b[1])
         [] ntype = "Mod" -> IF b[1] = 0 THEN NonFinite
                             ELSE Rat(TruncRem(a[1] * b[2], b[1] * a[2]),
                                      a[2] * b[2])

Value(v, u) == [value |-> v, unit |-> u]

raw(v) == Value(v, NoUnit)

untype(self) == Value(self.value, NoUnit)

Units ==
  <<"Teaspoon", "Tablespoon", "Cup", "Quart", "Gallon",
    "Liter", "Deciliter", "Centiliter", "Milliliter", "Gram", "Kilogram">>

\* The ordinal of a unit, counted from 1 as the rows of the table are here.
ordinal(u) == CHOOSE i \in 1..Len(Units) : Units[i] = u

\* The table of factors, row `from`, column `to`.  An entry that has more
\* than six digits is kept to four significant digits and at most nine
\* decimal places; the entries that up(), min() and the checks on values
\* go through are exact.
ConversionTable ==
  <<
     <<<<1, 1>>, <<1, 3>>, <<2083, 100000>>, <<651, 125000>>, <<651, 500000>>, <<4929, 1000000>>, <<4929, 100000>>, <<4929, 1000>>, <<4929, 1>>, <<0, 1>>, <<0, 1>>>>,
     <<<<3, 1>>, <<1, 1>>, <<1, 16>>, <<1, 64>>, <<1, 256>>, <<1479, 100000>>, <<1479, 10000>>, <<1479, 100>>, <<14790, 1>>, <<0, 1>>, <<0, 1>>>>,
     <<<<48, 1>>, <<16, 1>>, <<1, 1>>, <<1, 4>>, <<1, 16>>, <<1183, 5000>>, <<1479, 1000>>, <<1479, 1>>, <<14790000, 1>>, <<0, 1>>, <<0, 1>>>>,
     <<<<192, 1>>, <<64, 1>>, <<4, 1>>, <<1, 1>>, <<1, 4>>, <<1183, 1250>>, <<1183, 125>>, <<4732, 5>>, <<946400, 1>>, <<0, 1>>, <<0, 1>>>>,
     <<<<768, 1>>, <<256, 1>>, <<16, 1>>, <<4, 1>>, <<1, 1>>, <<757, 200>>, <<757, 20>>, <<3785, 1>>, <<3785000, 1>>, <<0, 1>>, <<0, 1>>>>,
     <<<<50721, 250>>, <<16907, 250>>, <<16907, 4000>>, <<16907, 16000>>, <<16907, 64000>>, <<1, 1>>, <<10, 1>>, <<100, 1>>, <<1000, 1>>, <<0, 1>>, <<0, 1>>>>,
     <<<<50721, 2500>>, <<16907, 2500>>, <<16907, 25000>>, <<16907, 160000>>, <<16907, 640000>>, <<1, 10>>, <<1, 1>>, <<10, 1>>, <<100, 1>>, <<0, 1>>, <<0, 1>>>>,
     <<<<50721, 250000>>, <<16907, 250000>>, <<6763, 10000000>>, <<1057, 1000000>>, <<1321, 5000000>>, <<1, 100>>, <<1, 10>>, <<1, 1>>, <<10, 1>>, <<0, 1>>, <<0, 1>>>>,
     <<<<2029, 10000000>>, <<6763, 100000000>>, <<17, 250000000>>, <<1057, 1000000000>>, <<33, 125000000>>, <<1, 1000>>, <<1, 100>>, <<1, 10>>, <<1, 1>>, <<0, 1>>, <<0, 1>>>>,
     <<<<0, 1>>, <<0, 1>>, <<0, 1>>, <<0, 1>>, <<0, 1>>, <<0, 1>>, <<0, 1>>, <<0, 1>>, <<0, 1>>, <<1, 1>>, <<1, 1000>>>>,
     <<<<0, 1>>, <<0, 1>>, <<0, 1>>, <<0, 1>>, <<0, 1>>, <<0, 1>>, <<0, 1>>, <<0, 1>>, <<0, 1>>, <<1000, 1>>, <<1, 1>>>>
  >>

CONVERSION(from, dst) == ConversionTable[ordinal(from)][ordinal(dst)]

\* Unit::up, NoUnit at the top of a chain
Unit_up(u) ==
  CASE u = "Teaspoon"   -> "Tablespoon"
    [] u = "Tablespoon" -> "Cup"
    [] u = "Cup"        -> "Quart"
    [] u = "Quart"      -> "Gallon"
    [] u = "Gallon"     -> NoUnit
    [] u = "Milliliter" -> "Centiliter"
    [] u = "Centiliter" -> "Deciliter"
    [] u = "Deciliter"  -> "Liter"
    [] u = "Liter"      -> NoUnit
    [] u = "Gram"       -> "Kilogram"
    [] u = "Kilogram"   -> NoUnit

Unit_min_top(u) ==
  CASE u \in {"Teaspoon", "Tablespoon", "Cup", "Quart", "Gallon"} -> "Teaspoon"
    [] u \in {"Liter", "Deciliter", "Centiliter", "Milliliter"}   -> "Liter"
    [] u \in {"Gram", "Kilogram"}                                 -> "Kilogram"

Unit_min(u) ==
  CASE u \in {"Teaspoon", "Tablespoon", "Cup", "Quart", "Gallon"} -> "Teaspoon"
    [] u \in {"Liter", "Deciliter", "Centiliter", "Milliliter"}   -> "Liter"
    [] u \in {"Gram", "Kilogram"}                                 -> "Gram"

\* An Option<Value>: <<>> is None and <<v>> is Some(v).
convert_unchecked(self, dst) ==
  IF dst = NoUnit THEN <<raw(self.value)>>
  ELSE IF self.unit = NoUnit THEN <<Value(self.value, dst)>>
  ELSE IF self.unit = dst THEN <<self>>
  ELSE <<Value(f64_op("Mul", self.value, CONVERSION(self.unit, dst)), dst)>>

convert(self, dst) ==
  IF dst = NoUnit THEN <<raw(self.value)>>
  ELSE IF self.unit = NoUnit THEN <<Value(self.value, dst)>>
  ELSE IF self.unit = dst THEN <<self>>
  ELSE The({ IF factor = <<0, 1>> THEN <<>>
             ELSE <<Value(f64_op("Mul", self.value, factor), dst)>> :
             factor \in {CONVERSION(self.unit, dst)} })

\* base: <<v>> is the Value returned, <<>> the panic of unwrap() on None.
base(self) ==
  IF self.unit = NoUnit THEN <<self>> ELSE convert(self, Unit_min(self.unit))

\* a < b of f64, both finite
f64_lt(a, b) == a[1] * b[2] < b[1] * a[2]

\* The loop of pack on v
RECURSIVE PackLoop(_)
PackLoop(v) ==
  IF v.unit = NoUnit THEN v
  ELSE IF Unit_up(v.unit) = NoUnit THEN v
  ELSE The({ IF n = <<>> THEN v
             ELSE IF f64_lt(n[1].value, <<1, 1>>) THEN v
             ELSE PackLoop(n[1]) :
             n \in {convert(v, Unit_up(v.unit))} })

PackOneLevel(v) ==
  IF v.unit = NoUnit THEN v
  ELSE IF Unit_up(v.unit) = NoUnit THEN v
  ELSE The({ IF n = <<>> THEN v
             ELSE IF f64_lt(n[1].value, <<1, 1>>) THEN v
             ELSE n[1] :
             n \in {convert(v, Unit_up(v.unit))} })

pack(self) == IF self.unit = NoUnit THEN self ELSE PackLoop(self)

coalesce_left_first(a, b) == IF b # NoUnit THEN b ELSE a

coalesce(a, b) == IF a # NoUnit THEN a ELSE b

Converted(v, target) ==
  The({ IF conv = <<>> THEN untype(v) ELSE conv[1] : conv \in {convert(v, target)} })

operands(lhs, rhs) ==
  The({ [target |-> target, left |-> Converted(lhs, target),
         right |-> Converted(rhs, target)] :
        target \in {coalesce(rhs.unit, lhs.unit)} })

\* self + right, self - right, self * right, self / right, self % right
Value_op(ntype, lhs, rhs) ==
  The({ Value(f64_op(ntype, o.left.value, o.right.value), o.target) :
        o \in {operands(lhs, rhs)} })

(***************************************************************************)
(* Evaluation (src/src/rdl/exec.rs).  A Context is the function of its     *)
(* bindings.  exec yields the context after it (cxt), the error (err,      *)
(* NoErr for Ok) and the Value (val).  An error is the tuple of its kind   *)
(* and what it carries; a formatted message is the tuple of its parts.     *)
(***************************************************************************)
Context_new == <<>>

Context_set(c, key, val) ==
  [k \in DOMAIN c \cup {key} |-> IF k = key THEN val ELSE c[k]]

\* An Option<Value>
Context_get(c, key) == IF key \in DOMAIN c THEN <<c[key]>> ELSE <<>>

NoErr == <<>>

UnboundVariable(name) == <<"UnboundVariable", name>>

InvalidASTNode(msg) == <<"InvalidASTNode", msg>>

\* What "{}" writes for an error; the text of an InvalidASTNode is kept as
\* the error itself.
Display(err) ==
  IF err[1] = "UnboundVariable" THEN <<"No such variable: ", err[2]>> ELSE err

XOk(c, v) == [cxt |-> c, err |-> NoErr, val |-> v]

XErr(c, err) == [cxt |-> c, err |-> err, val |-> <<>>]

Node_text(node, c) ==
  IF node[4] = NoField THEN XErr(c, InvalidASTNode(<<node[1], ": Expected text">>))
  ELSE XOk(c, node[4])

Node_value(node, c) ==
  IF node[5] = NoField THEN XErr(c, InvalidASTNode(<<node[1], ": Expected value">>))
  ELSE XOk(c, raw(node[5]))

Node_left(node, c) ==
  IF node[2] = NoField
  THEN XErr(c, InvalidASTNode(<<node[1], ": Expected left child">>))
  ELSE XOk(c, node[2])

Node_right(node, c) ==
  IF node[3] = NoField
  THEN XErr(c, InvalidASTNode(<<node[1], ": Expected right child">>))
  ELSE XOk(c, node[3])

RECURSIVE exec(_, _)

exec_ident(node, c) ==
  The({ IF name.err # NoErr THEN name
        ELSE The({ IF v = <<>> THEN XErr(c, UnboundVariable(name.val))
                   ELSE XOk(c, v[1]) : v \in {Context_get(c, name.val)} }) :
        name \in {Node_text(node, c)} })

exec_number(node, c) == Node_value(node, c)

AssignNoSet(node, name, r) ==
  IF r.err # NoErr
  THEN XErr(r.cxt, InvalidASTNode(<<node[1], ": Could not exec right: ",
                                    Display(r.err)>>))
  ELSE XOk(r.cxt, r.val)

\* exec_assign once the right child has been evaluated to r
AssignSet(node, name, r) ==
  IF r.err # NoErr
  THEN XErr(r.cxt, InvalidASTNode(<<node[1], ": Could not exec right: ",
                                    Display(r.err)>>))
  ELSE XOk(Context_set(r.cxt, name, r.val), r.val)

exec_assign(node, c) ==
  The({ IF l.err # NoErr THEN l
        ELSE IF r.err # NoErr THEN r
        ELSE IF l.val[1] # "Ident"
        THEN XErr(c, InvalidASTNode(<<node[1],
                  ": Expected identifier as left child, got: ", l.val[1]>>))
        ELSE The({ IF name.err # NoErr THEN name
                   ELSE The({ AssignSet(node, name.val, x) :
                              x \in {exec(r.val, c)} }) :
                   name \in {Node_text(l.val, c)} }) :
        l \in {Node_left(node, c)}, r \in {Node_right(node, c)} })

exec_typecast(node, c) ==
  The({ IF l.err # NoErr THEN l
        ELSE IF r.err # NoErr THEN r
        ELSE IF r.val[1] # "Ident"
        THEN XErr(c, InvalidASTNode(<<node[1],
                  ": Expected identifier as right child, got: ", r.val[1]>>))
        ELSE The({ IF tcast.err # NoErr THEN tcast
                   ELSE The({ IF x.err # NoErr
                              THEN XErr(x.cxt, InvalidASTNode(<<node[1],
                                        ": Could not exec left: ", Display(x.err)>>))
                              ELSE x :
                              x \in {exec(l.val, c)} }) :
                   tcast \in {Node_text(r.val, c)} }) :
        l \in {Node_left(node, c)}, r \in {Node_right(node, c)} })

\* What exec_arith does with the error of an operand.
ArithErr_propagate(node, side, x) == x

ArithErr(node, side, x) ==
  XErr(x.cxt, InvalidASTNode(<<node[1], side, Display(x.err)>>))

\* exec_arith once the left child has been evaluated to l
ArithRhs(node, l) ==
  The({ IF r.err # NoErr THEN r
        ELSE The({ IF y.err # NoErr
                   THEN ArithErr(node, ": Could not exec right: ", y)
                   ELSE XOk(y.cxt, Value_op(node[1], l.val, y.val)) :
                   y \in {exec(r.val, l.cxt)} }) :
        r \in {Node_right(node, l.cxt)} })

exec_arith(node, c) ==
  The({ IF l.err # NoErr THEN l
        ELSE The({ IF x.err # NoErr
                   THEN ArithErr(node, ": Could not exec left: ", x)
                   ELSE ArithRhs(node, x) :
                   x \in {exec(l.val, c)} }) :
        l \in {Node_left(node, c)} })

exec(node, c) ==
  CASE node[1] = "Ident"    -> exec_ident(node, c)
    [] node[1] = "Number"   -> exec_number(node, c)
    [] node[1] = "Assign"   -> exec_assign(node, c)
    [] node[1] = "Typecast" -> exec_typecast(node, c)
    [] OTHER                -> exec_arith(node, c)

(***************************************************************************)
(* The state machine: one Text buffer and the call made on it.  A call     *)
(* records its arguments, the text it found and what it returned; Return   *)
(* hands control back to the caller.  A panic ends the program.            *)
(***************************************************************************)
VARIABLES text, width, lines, sel, loc, call

\* The rdl side: a Scanner (the one a Parser owns), the ranges of the tokens
\* token() has returned from it, a Context, and the last rdl call made.
VARIABLES scanner, returned, cxt, rcall

\* The formula pane: the render pass draw_formula is making, if any.
VARIABLES draw

\* The Editor that owns the Text: its mode and the Pos it last stored.
VARIABLES mode, pos

textvars == <<text, width, lines, sel, loc, call>>

rdlvars == <<scanner, returned, cxt, rcall, draw>>

edvars == <<mode, pos>>

vars ==
  <<text, width, lines, sel, loc, call, scanner, returned, cxt, rcall, draw,
    mode, pos>>

Self == [text |-> text, width |-> width, lines |-> lines, sel |-> sel, loc |-> loc]

\* op: the operation; a, b: its index arguments; c: its character or movement;
\* o: its Operation; pre: the text before it; ret: what it returned.
Call(op, a, b, c, o, pre, ret) ==
  [op |-> op, a |-> a, b |-> b, c |-> c, o |-> o, pre |-> pre, sel0 |-> sel,
   ret |-> ret]

NoCall == Call("none", 0, 0, "", "", <<>>, NonePos)

\* The caller is between calls; it makes none on a text longer than MaxLen.
Idle == call.op = "none" /\ Len(text) <= MaxLen

\* The index arguments tried: every position of the text and one past its end;
\* where the operation does usize arithmetic on its argument, the largest usize too.
Indices == 0..(Len(text) + 1)

BigIndices == Indices \cup {USIZE_MAX}

\* The range tried by Select: to far past the end.
SelRanges == {Range(1, USIZE_MAX)}

\* rop: the rdl operation; arg: its argument; pre: the Context before it;
\* err, val: the Err or the Ok value it returned.
RCall(rop, arg, pre, err, val) ==
  [op |-> rop, arg |-> arg, pre |-> pre, err |-> err, val |-> val]

NoRCall == RCall("none", <<>>, <<>>, "", <<>>)

\* No render pass has been made.
NoDraw ==
  [st |-> "none", rest |-> <<>>, g |-> <<>>, i |-> 0, fmla |-> <<>>,
   debug |-> FALSE]

\* No rdl object is in use.
\* The Text is used on its own, with no Editor around it.
NoEditor ==
  /\ mode = "Normal"
  /\ pos = [index |-> 0, x |-> 0, y |-> 0]

NoRdl ==
  /\ scanner = Scanner_new(<<>>)
  /\ returned = <<>>
  /\ draw = NoDraw
  /\ cxt = Context_new
  /\ rcall = NoRCall

Apply(op, a, b, c, o, r) ==
  /\ text'  = r.self.text
  /\ width' = r.self.width
  /\ lines' = r.self.lines
  /\ sel'   = r.self.sel
  /\ loc'   = r.self.loc
  /\ call'  = Call(op, a, b, c, o, text, r.ret)
  /\ UNCHANGED rdlvars
  /\ UNCHANGED edvars

Init ==
  /\ width \in 1..MaxWidth
  /\ text \in Strings(MaxLen)
  /\ lines = new_with_str(width, text).lines
  /\ sel = new_with_str(width, text).sel
  /\ loc = new_with_str(width, text).loc
  /\ call = NoCall
  /\ NoRdl
  /\ NoEditor

Index ==
  /\ Idle
  /\ \E idx \in Indices :
       Apply("index", idx, 0, "", "", Result(Self, SomePos(index(Self, idx))))

Left ==
  /\ Idle
  /\ \E idx \in Indices :
       Apply("left", idx, 0, "", "", Result(Self, SomePos(left(Self, idx))))

Right ==
  /\ Idle
  /\ \E idx \in BigIndices, checks \in BOOLEAN :
       Apply("right", idx, 0, "", "", Result(Self, right(Self, idx, checks)))

Up ==
  /\ Idle
  /\ \E idx \in Indices :
       Apply("up", idx, 0, "", "", Result(Self, SomePos(up(Self, idx))))

Down ==
  /\ Idle
  /\ \E idx \in Indices :
       Apply("down", idx, 0, "", "", Result(Self, SomePos(down(Self, idx))))

Home ==
  /\ Idle
  /\ \E idx \in Indices :
       Apply("home", idx, 0, "", "", Result(Self, SomePos(home(Self, idx))))

End ==
  /\ Idle
  /\ \E idx \in Indices :
       Apply("end", idx, 0, "", "", Result(Self, SomePos(end(Self, idx))))

Insert ==
  /\ Idle
  /\ \E idx \in BigIndices, c \in Chars, checks \in BOOLEAN :
       Apply("insert", idx, 0, c, "", insert(Self, idx, c, checks))

Backspace ==
  /\ Idle
  /\ \E idx \in BigIndices, checks \in BOOLEAN :
       Apply("backspace", idx, 0, "", "", backspace(Self, idx, checks))

Delete ==
  /\ Idle
  /\ \E a \in Indices, b \in Indices :
       Apply("delete", a, b, "", "", delete(Self, a, b))

\* edit with Operation::Move or Operation::Delete.
Edit ==
  /\ Idle
  /\ \E idx \in BigIndices, mvmt \in Movements, operation \in {"Move", "Delete"},
        checks \in BOOLEAN :
       Apply("edit", idx, 0, mvmt, operation, edit(Self, idx, mvmt, operation, checks))

\* A call select(rng, extend): the call records the range, whether it was
\* None, and the extend flag.
SelectCall(rng, extend) ==
  Apply("select", IF rng = NoSel THEN 0 ELSE rng[1], IF rng = NoSel THEN 0 ELSE rng[2],
        IF rng = NoSel THEN "None" ELSE "Some",
        IF extend THEN "extend" ELSE "replace", select(Self, rng, extend))

Select ==
  /\ Idle
  /\ \E rng \in SelRanges \cup {NoSel}, extend \in BOOLEAN : SelectCall(rng, extend)

\* The ends of the ranges tried by SelectWithin: the first two and the last
\* two positions of the text.
SelEnds == {0, 1, Len(text) - 1, Len(text)} \cap (0..Len(text))

\* select with a range a..b, a <= b <= len(), or None.
SelectWithin ==
  /\ Idle
  /\ \E a \in SelEnds, b \in SelEnds, extend \in BOOLEAN :
       a <= b /\ SelectCall(Range(a, b), extend)

SelectNone ==
  /\ Idle
  /\ sel # NoSel
  /\ \E extend \in BOOLEAN : SelectCall(NoSel, extend)

SelectedText ==
  /\ Idle
  /\ Apply("selected_text", 0, 0, "", "", Result(Self, selected_text(Self)))

Return ==
  /\ call.op # "none"
  /\ call.ret.kind # "panic"
  /\ call' = NoCall
  /\ UNCHANGED <<text, width, lines, sel, loc>>
  /\ UNCHANGED rdlvars
  /\ UNCHANGED edvars

Next ==
  \/ Index \/ Left \/ Right \/ Up \/ Down \/ Home \/ End
  \/ Insert \/ Backspace \/ Delete
  \/ Return

Spec == Init /\ [][Next]_vars

\* The same buffer, edited through delete and edit.
NextEdit == Delete \/ Edit \/ Return

SpecEdit == Init /\ [][NextEdit]_vars

\* The same buffer, with selections made on it as well.
NextSel ==
  \/ Index \/ Left \/ Right \/ Up \/ Down \/ Home \/ End
  \/ Insert \/ Backspace \/ Delete \/ Select
  \/ Return

SpecSel == Init /\ [][NextSel]_vars

\* The texts tried by SetText.
SetTexts == Strings(MaxLen - 1)

\* set_text(text); it returns nothing.
SetText ==
  /\ Idle
  /\ \E t \in SetTexts : Apply("set_text", 0, 0, "", "", set_text(Self, t))

\* Every call that changes the buffer or moves in it, set_text included.
NextSet == NextSel \/ SetText

SpecSet == Init /\ [][NextSet]_vars

(***************************************************************************)
(* The calls relative to the cursor (src/src/text/mod.rs): each works at   *)
(* self.loc and stores the index of the Pos it returns in self.loc.        *)
(***************************************************************************)
\* The Pos is returned and the cursor is left where it was.
StoreLocNot(r) == r

\* self.loc = pos.index; pos
StoreLoc(r) ==
  IF r.ret.kind # "pos" THEN r
  ELSE Result([r.self EXCEPT !.loc = r.ret.pos.index], r.ret)

\* None => self.index(self.loc), for edit_rel.
OrAtLoc(r) ==
  IF r.ret.kind = "none" THEN Result(r.self, SomePos(index(r.self, r.self.loc)))
  ELSE r

\* None => return self.index(self.loc), for delete_rel and select_rel: loc
\* is not stored.
ReturnAtLoc(r) ==
  IF r.ret.kind = "none" THEN Result(r.self, SomePos(index(r.self, r.self.loc)))
  ELSE StoreLoc(r)

edit_rel(self, mvmt, operation, checks) ==
  StoreLoc(OrAtLoc(edit(self, self.loc, mvmt, operation, checks)))

\* up_rel, down_rel, left_rel, right_rel, home_rel and end_rel.
move_rel(self, mvmt, checks) ==
  StoreLoc(Result(self, to(self, self.loc, mvmt, checks)))

insert_rel(self, c, checks) == StoreLoc(insert(self, self.loc, c, checks))

delete_rel(self, a, b) == ReturnAtLoc(delete(self, a, b))

select_rel(self, rng, extend) == ReturnAtLoc(select(self, rng, extend))

backspace_rel(self, checks) ==
  IF self.loc = 0 THEN Result(self, SomePos(ZERO_POS))
  ELSE StoreLoc(backspace(self, self.loc, checks))

\* The buffer is in use: no call has panicked.
Running == call.ret.kind # "panic"

\* The characters typed into it.
RelChars == {"a", "\n"}

InitRel ==
  /\ width \in 1..MaxWidth
  /\ text \in UNION {[1..k -> RelChars] : k \in 0..(MaxLen - 1)}
  /\ lines = new_with_str(width, text).lines
  /\ sel = new_with_str(width, text).sel
  /\ loc = new_with_str(width, text).loc
  /\ call = NoCall
  /\ NoRdl
  /\ NoEditor

\* A call made at the cursor; the call keeps whether it panicked and, of the
\* calls that may leave the buffer as it is, the name.
ApplyRel(op, r) ==
  /\ text'  = r.self.text
  /\ width' = r.self.width
  /\ lines' = r.self.lines
  /\ sel'   = r.self.sel
  /\ loc'   = r.self.loc
  /\ call'  = [NoCall EXCEPT !.op = op,
                              !.ret = IF r.ret.kind = "panic" THEN Panic ELSE NonePos]
  /\ UNCHANGED rdlvars
  /\ UNCHANGED edvars

\* The cursor stays far below usize::MAX, so idx + 1 and idx - 1 at the cursor
\* overflow in no build: the calls are made as the checked build makes them.
NoWrap == TRUE

EditRelSelect ==
  /\ Running
  /\ \E mvmt \in Movements :
       ApplyRel("edit_rel_select", edit_rel(Self, mvmt, "Select", NoWrap))

EditRel ==
  /\ Running
  /\ \E mvmt \in Movements, operation \in {"Move", "Delete"} :
       ApplyRel("rel", edit_rel(Self, mvmt, operation, NoWrap))

MoveRel ==
  /\ Running
  /\ \E mvmt \in {"Up", "Down", "Left", "Right", "StartOfLine", "EndOfLine"} :
       ApplyRel("move_rel", move_rel(Self, mvmt, NoWrap))

InsertRel ==
  /\ Running
  /\ Len(text) < MaxLen
  /\ \E c \in RelChars :
       ApplyRel("rel", insert_rel(Self, c, NoWrap))

BackspaceRel ==
  /\ Running
  /\ ApplyRel("backspace_rel", backspace_rel(Self, NoWrap))

DeleteRel ==
  /\ Running
  /\ \E a \in Indices, b \in Indices :
       a <= b /\ ApplyRel("rel", delete_rel(Self, a, b))

SelectRel ==
  /\ Running
  /\ \E a \in SelEnds, b \in SelEnds, extend \in BOOLEAN :
       a <= b /\ ApplyRel("rel", select_rel(Self, Range(a, b), extend))

SelectRelNone ==
  /\ Running
  /\ sel # NoSel
  /\ \E extend \in BOOLEAN : ApplyRel("rel", select_rel(Self, NoSel, extend))

SetTextRel ==
  /\ Running
  /\ \E t \in {<<>>, <<"a">>, <<"a", "\n">>} :
       ApplyRel("rel", set_text(Self, t))

NextRel ==
  \/ EditRelSelect \/ EditRel \/ MoveRel \/ InsertRel \/ BackspaceRel
  \/ DeleteRel \/ SelectRel \/ SelectRelNone \/ SetTextRel

SpecRel == InitRel /\ [][NextRel]_vars

\* Selections grown from the cursor by edit_rel alone.
NextRelSelect == EditRelSelect

SpecRelSelect == InitRel /\ [][NextRelSelect]_vars

(***************************************************************************)
(* The Editor (src/src/editor/mod.rs): a Text, a mode and the Pos of the   *)
(* cursor, driven by key events.                                           *)
(***************************************************************************)
MaxCols == 6

\* Text::new((size.0 / 3) * 2)
EditorWidth(cols) == (cols \div 3) * 2

\* The key events: those key() matches, and "Other" for every other event.
MoveKeys ==
  {"Left", "Right", "Up", "Down", "Home", "End", "CtrlB", "CtrlE", "CtrlW"}

TypedChars == {"a", " "}

Keys == MoveKeys \cup {"CtrlQ", "CtrlD", "Backspace", "Char", "Enter", "Other"}

\* The Movement of a movement key.
KeyMovement(evt) ==
  CASE evt = "Left"  -> "Left"
    [] evt = "Right" -> "Right"
    [] evt = "Up"    -> "Up"
    [] evt = "Down"  -> "Down"
    [] evt = "Home"  -> "StartOfLine"
    [] evt = "End"   -> "EndOfLine"
    [] evt = "CtrlB" -> "StartOfWord"
    [] evt = "CtrlE" -> "EndOfWord"
    [] evt = "CtrlW" -> "Word"

\* let op = match self.mode
KeyOperation(m) == IF m = "Normal" THEN "Move" ELSE "Delete"

\* A faulty end of key(), which leaves the mode as it is.
ModeKept(m) == m

\* self.mode = Mode::Normal, after the match.
ModeReset(m) == "Normal"

\* What the arm of the match for evt does to the Text, and what it returns;
\* v is the character of a Char event.
KeyArm(self, evt, v, op) ==
  CASE evt \in MoveKeys    -> edit_rel(self, KeyMovement(evt), op, NoWrap)
    [] evt = "Backspace"   -> backspace_rel(self, NoWrap)
    [] evt = "Char"        -> insert_rel(self, v, NoWrap)
    [] evt = "Enter"       -> insert_rel(self, "\n", NoWrap)
    [] OTHER               -> Result(self, NonePos)

\* The call record of a key event: the event, the Operation its arm applied
\* ("" where it applied none), the text it found and whether it panicked.
KeyCall(evt, o, ret) ==
  [NoCall EXCEPT !.op = "key", !.c = evt, !.o = o, !.pre = text,
                 !.ret = IF ret.kind = "panic" THEN Panic ELSE NonePos]

InitKeys ==
  /\ \E cols \in 3..MaxCols : width = EditorWidth(cols)
  /\ text = <<>>
  /\ lines = new_with_str(width, <<>>).lines
  /\ sel = new_with_str(width, <<>>).sel
  /\ loc = new_with_str(width, <<>>).loc
  /\ call = NoCall
  /\ NoRdl
  /\ NoEditor

\* The event loop goes on: key() has not returned Ok(false) or panicked.
Looping == call.c # "CtrlQ" /\ call.ret.kind # "panic"

\* Editor::set_text
EditorSetText ==
  /\ Looping
  /\ \E t \in {<<"a", " ", "a">>, <<"a", "\n", "a">>, <<"a", "a", "a">>} :
       /\ t # text
       /\ ApplyRel("set_text", set_text(Self, t))

\* Editor::key on the event evt.
Key ==
  /\ Looping
  /\ \E evt \in Keys, v \in TypedChars :
       /\ evt \in {"Char", "Enter"} => Len(text) < MaxLen
       /\ evt # "Char" => v = "a"
       /\ IF evt = "CtrlQ"
          THEN /\ call' = KeyCall(evt, "", NonePos)
               /\ UNCHANGED <<text, width, lines, sel, loc, mode, pos>>
          ELSE IF evt = "CtrlD"
          THEN /\ mode' = "Delete"
               /\ call' = KeyCall(evt, "", NonePos)
               /\ UNCHANGED <<text, width, lines, sel, loc, pos>>
          ELSE \E r \in {KeyArm(Self, evt, v, KeyOperation(mode))} :
                 /\ text'  = r.self.text
                 /\ width' = r.self.width
                 /\ lines' = r.self.lines
                 /\ sel'   = r.self.sel
                 /\ loc'   = r.self.loc
                 /\ pos'   = IF r.ret.kind = "pos" THEN r.ret.pos ELSE pos
                 /\ mode'  = IF r.ret.kind = "panic" THEN mode ELSE ModeReset(mode)
                 /\ call'  = KeyCall(evt,
                                     IF evt \in MoveKeys THEN KeyOperation(mode) ELSE "",
                                     r.ret)
  /\ UNCHANGED rdlvars

NextKeys == EditorSetText \/ Key

SpecKeys == InitKeys /\ [][NextKeys]_vars

(***************************************************************************)
(* The scanner as a state machine: one Scanner on one input, and the       *)
(* public calls made on it.                                                *)
(***************************************************************************)
\* The characters of the scanned inputs: a letter, a digit, the decimal
\* point, an operator, a space, a symbol, the escape char and a 2-byte letter.
ScanChars == {"x", "1", ".", "+", " ", "=", ESCAPE, "E"}

ScanInputs == UNION {[1..n -> ScanChars] : n \in 0..MaxScanLen}

\* The token types passed to discard and expect_token.
TTypesTried == {"Whitespace", "Ident", "Number", "Verbatim"}

\* No Text buffer is in use.
NoText ==
  /\ width = 1
  /\ text = <<>>
  /\ lines = new_with_str(1, <<>>).lines
  /\ sel = new_with_str(1, <<>>).sel
  /\ loc = new_with_str(1, <<>>).loc
  /\ call = NoCall
  /\ NoEditor

InitScan ==
  /\ NoText
  /\ scanner \in {Scanner_new(t) : t \in ScanInputs}
  /\ returned = <<>>
  /\ draw = NoDraw
  /\ cxt = Context_new
  /\ rcall = NoRCall

\* A call on the scanner that returned r.
ScanApply(rop, arg, r) ==
  /\ scanner' = r.sc
  /\ rcall' = RCall(rop, arg, cxt, r.err, r.val)
  /\ UNCHANGED <<cxt, draw>>
  /\ UNCHANGED textvars
  /\ UNCHANGED edvars

La ==
  \E r \in {la(scanner)} : ScanApply("la", <<>>, r) /\ UNCHANGED returned

LaRange ==
  \E r \in {la_range(scanner)} :
    ScanApply("la_range", <<>>, r) /\ UNCHANGED returned

Discard ==
  \E which \in TTypesTried :
    \E r \in {discard(scanner, which)} :
      ScanApply("discard", which, r) /\ UNCHANGED returned

DiscardFn ==
  \E r \in {discard_fn(scanner, "Whitespace|Verbatim")} :
    ScanApply("discard_fn", "Whitespace|Verbatim", r) /\ UNCHANGED returned

ExpectToken ==
  \E expect \in TTypesTried :
    \E r \in {expect_token(scanner, expect)} :
      ScanApply("expect_token", expect, r) /\ UNCHANGED returned

ExpectTokenFn ==
  \E r \in {expect_token_fn(scanner, "Whitespace|Verbatim")} :
    ScanApply("expect_token_fn", "Whitespace|Verbatim", r) /\ UNCHANGED returned

\* token(); the range of the token it returned, unless that is End, is kept.
NextToken ==
  \E r \in {token(scanner)} :
    /\ ScanApply("token", <<>>, r)
    /\ returned' = IF r.err = "" /\ r.val.ttype # "End"
                   THEN Append(returned, r.val.range)
                   ELSE returned

\* Only token() is called.
NextTokens == NextToken

SpecToken == InitScan /\ [][NextTokens]_vars

\* Every public call of the scanner.
NextScan ==
  \/ La \/ LaRange \/ Discard \/ DiscardFn
  \/ ExpectToken \/ ExpectTokenFn \/ NextToken

SpecScan == InitScan /\ [][NextScan]_vars

(***************************************************************************)
(* The parser as a state machine: a Parser made on a chain of three        *)
(* primaries joined by two operators, and parse() called on it as the      *)
(* render loop does, until it fails.                                       *)
(***************************************************************************)
\* The primaries of the parsed chains, as written.
Primaries ==
  { <<"x">>, <<"1">>, <<"(", "x", ")">>, <<"(", "1", "-", "x", ")">>,
    <<"1", " ", "k", "g">>, <<"x", " ", "k", "g">> }

OpChars == {"+", "-", "*", "/", "%"}

\* What separates a primary from an operator: nothing, or a space.
Spacings == {<<>>, <<" ">>}

\* The text 'a op1 b op2 c'.
Chain(in) ==
  in.a \o in.sp \o <<in.op1>> \o in.sp \o in.b \o in.sp \o <<in.op2>> \o in.sp \o in.c

ParseInputs ==
  [a : Primaries, op1 : OpChars, b : Primaries, op2 : OpChars, c : Primaries,
   sp : Spacings]

\* Parser::new(Scanner::new(text)); rcall.arg keeps what the text was made
\* of and rcall.pre the number of parse() calls made so far.
InitParse ==
  /\ NoText
  /\ \E in \in ParseInputs :
       /\ scanner = Scanner_new(Chain(in))
       /\ rcall = [op |-> "new", arg |-> in, pre |-> 0, err |-> "", val |-> <<>>]
  /\ returned = <<>>
  /\ draw = NoDraw
  /\ cxt = Context_new

\* p.parse() in the loop of render_with_options, which ends at the first Err.
Parse ==
  /\ rcall.op \in {"new", "parse"}
  /\ rcall.err = ""
  /\ \E r \in {parse(scanner)} :
         /\ scanner' = r.sc
         /\ rcall' = [op |-> "parse", arg |-> rcall.arg, pre |-> rcall.pre + 1,
                      err |-> r.err, val |-> r.val]
  /\ UNCHANGED <<returned, cxt, draw>>
  /\ UNCHANGED textvars
  /\ UNCHANGED edvars

NextParse == Parse

SpecParse == InitParse /\ [][NextParse]_vars

\* Clauses of every shape: the texts of up to MaxClauseLen of these characters.
MaxClauseLen == 4

ClauseChars == {"x", "g", "1", "=", "-", " ", "(", ")"}

\* Longer clauses: a unit after a right operand.
LongerClauses ==
  {<<"1", "-", "x", " ", "g">>, <<"x", "-", "1", " ", "g">>,
   <<"1", "-", "1", "g", "-", "x", " ", "g">>, <<"x", " ", "=", " ", "-", "1">>}

ClauseTexts ==
  UNION {[1..k -> ClauseChars] : k \in 0..MaxClauseLen} \cup LongerClauses

InitClause ==
  /\ NoText
  /\ \E t \in ClauseTexts :
       /\ scanner = Scanner_new(t)
       /\ rcall = [op |-> "new", arg |-> t, pre |-> 0, err |-> "", val |-> <<>>]
  /\ returned = <<>>
  /\ draw = NoDraw
  /\ cxt = Context_new

SpecClause == InitClause /\ [][NextParse]_vars

(***************************************************************************)
(* Evaluation against one Context, as the loop of render_with_options      *)
(* does with the nodes it parsed.                                          *)
(***************************************************************************)
MaxNum == 4       \* largest numerator and denominator of a value kept

Names == {<<"x">>, <<"y">>}

UnitNames == {<<"k", "g">>, <<"g">>}

Leaves ==
  {new_ident(n) : n \in Names} \cup {new_number(<<1, 1>>), new_number(<<2, 1>>)}

ArithTypes == {"Add", "Sub", "Mul", "Div", "Mod"}

Ariths == {Node(t, l, r, NoField, NoField) : t \in ArithTypes, l \in Leaves, r \in Leaves}

Typecasts ==
  {new_typecast(l, new_ident(u)) : l \in Leaves, u \in UnitNames \cup {<<"x">>}}
    \cup {new_typecast(l, new_number(<<1, 1>>)) : l \in Leaves}

Assigns ==
  {new_assign(new_ident(n), r) : n \in Names, r \in Leaves}
    \cup {new_assign(new_ident(n), new_add(new_ident(n), new_number(<<1, 1>>))) :
          n \in Names}
    \cup {new_assign(new_number(<<1, 1>>), r) : r \in Leaves}

Nested ==
  {Node(t, a, l, NoField, NoField) :
     t \in {"Add", "Div"},
     a \in {new_assign(new_ident(<<"x">>), new_number(<<2, 1>>)),
            new_sub(new_ident(<<"x">>), new_number(<<1, 1>>)),
            new_typecast(new_ident(<<"y">>), new_ident(<<"g">>))},
     l \in Leaves}
    \cup {new_typecast(new_typecast(l, new_ident(<<"k", "g">>)), new_ident(<<"g">>)) :
          l \in Leaves}
    \cup {new_assign(new_ident(<<"y">>), a) :
          a \in {new_assign(new_ident(<<"x">>), new_number(<<2, 1>>)),
                 new_typecast(new_ident(<<"x">>), new_ident(<<"g">>))}}

ExecNodes == Leaves \cup Ariths \cup Typecasts \cup Assigns \cup Nested

Kept(v) == IsFinite(v.value) /\ Abs(v.value[1]) <= MaxNum /\ v.value[2] <= MaxNum

\* Context::new()
InitExec ==
  /\ NoText
  /\ scanner = Scanner_new(<<>>)
  /\ returned = <<>>
  /\ draw = NoDraw
  /\ cxt = Context_new
  /\ rcall = RCall("new", <<>>, Context_new, NoErr, <<>>)

\* exp.ast.exec(cxt); rcall.pre is the Context the call found.
Exec ==
  \E node \in ExecNodes :
    \E r \in {exec(node, cxt)} :
      /\ r.err = NoErr => Kept(r.val)
      /\ \A k \in DOMAIN r.cxt : Kept(r.cxt[k])
      /\ cxt' = r.cxt
      /\ rcall' = RCall("exec", node, cxt, r.err, r.val)
      /\ UNCHANGED <<scanner, returned, draw>>
      /\ UNCHANGED textvars
      /\ UNCHANGED edvars

NextExec == Exec

SpecExec == InitExec /\ [][NextExec]_vars

(***************************************************************************)
(* The arithmetic of Values, on every pair of operands tried.  A Value is   *)
(* Copy and its operations are pure: a behaviour makes one call.           *)
(***************************************************************************)
UnitsTried == {NoUnit, "Teaspoon", "Tablespoon", "Gram", "Kilogram"}

ValuesTried == {Value(<<n, 1>>, u) : n \in 1..3, u \in UnitsTried}

InitUnits ==
  /\ NoText
  /\ scanner = Scanner_new(<<>>)
  /\ returned = <<>>
  /\ draw = NoDraw
  /\ cxt = Context_new
  /\ rcall = RCall("new", <<>>, <<>>, NoErr, <<>>)

\* lhs + rhs, lhs - rhs, lhs * rhs, lhs / rhs, lhs % rhs
Operate ==
  \E t \in ArithTypes, lhs \in ValuesTried, rhs \in ValuesTried :
    /\ rcall.op = "new"
    /\ rcall' = RCall(t, <<lhs, rhs>>, <<>>, NoErr, Value_op(t, lhs, rhs))
    /\ UNCHANGED <<scanner, returned, cxt, draw>>
    /\ UNCHANGED textvars
    /\ UNCHANGED edvars

\* The values convert is tried on, in every unit and in none.
ConvertValues ==
  {Value(<<n, 1>>, u) : n \in 1..3, u \in {NoUnit} \cup {Units[i] : i \in 1..Len(Units)}}

\* v.convert(to)
Convert ==
  \E v \in ConvertValues, dst \in {NoUnit} \cup {Units[i] : i \in 1..Len(Units)} :
    /\ rcall.op = "new"
    /\ rcall' = RCall("convert", <<v, dst>>, <<>>, NoErr, convert(v, dst))
    /\ UNCHANGED <<scanner, returned, cxt, draw>>
    /\ UNCHANGED textvars
    /\ UNCHANGED edvars

\* The values base and pack are tried on.
PackValues ==
  {Value(Rat(n, d), u) : n \in {-12, 1, 3, 12, 16, 48, 100, 1000, 1250}, d \in {1, 2},
                         u \in {NoUnit} \cup {Units[i] : i \in 1..Len(Units)}}

\* v.base(); a panic ends the program.
Base ==
  \E v \in PackValues :
    /\ rcall.op = "new"
    /\ rcall' = RCall("base", v, <<>>, NoErr, base(v))
    /\ UNCHANGED <<scanner, returned, cxt, draw>>
    /\ UNCHANGED textvars
    /\ UNCHANGED edvars

\* v.pack()
Pack ==
  \E v \in PackValues :
    /\ rcall.op = "new"
    /\ rcall' = RCall("pack", v, <<>>, NoErr, pack(v))
    /\ UNCHANGED <<scanner, returned, cxt, draw>>
    /\ UNCHANGED textvars
    /\ UNCHANGED edvars

NextUnits == Operate \/ Convert \/ Base \/ Pack

SpecUnits == InitUnits /\ [][NextUnits]_vars

(***************************************************************************)
(* The formula pane (src/src/editor/writer.rs draw_formula and             *)
(* src/src/rdl/mod.rs render_with_options).  A pass makes one Context and  *)
(* renders the paragraphs of the buffer in order; rendering a paragraph    *)
(* is a loop of parse, exec and push.  The output g is kept as the         *)
(* sequence of the pieces pushed onto it.                                  *)
(***************************************************************************)
\* f64 PI, by the rational that stands for it.
PI == Rat(355, 113)

\* Context::new_with_stdlib.
Context_new_with_stdlib == Context_set(Context_new, <<"p", "i">>, raw(PI))

\* g.push_str("; ").
Sep == [k |-> "sep"]

\* g.push_str(&res): the text of the Value the clause evaluated to.
Res(v) == [k |-> "res", v |-> v]

\* g.push_str(&format!("[{:?}] ", range)) under opts.debug.
DebugRange(r) == [k |-> "range", r |-> r]

\* g.push_str(&format!("{} -> ", exp.ast)) under opts.debug || opts.verbose.
DebugAst(a) == [k |-> "ast", a |-> a]

\* What one evaluated clause pushes onto g.
Pushed(d, exp, v) ==
  (IF d.i > 0 THEN <<Sep>> ELSE <<>>)
    \o (IF d.debug THEN <<DebugRange(exp.range), DebugAst(exp.ast)>> ELSE <<>>)
    \o <<Res(v)>>

\* exp.ast.exec(cxt), against a Context of its own: the bindings made so far
\* are not seen.
ClauseExecFresh(ast, c) == exec(ast, Context_new_with_stdlib)

\* exp.ast.exec(cxt) in the loop of render_with_options.
ClauseExec(ast, c) == exec(ast, c)

\* The loop once more after a failed exec, with the separator pushed all the
\* same.
ContinueSep(d) == [d EXCEPT !.g = @ \o <<Sep>>]

\* Err(_) => continue.
Continue(d) == d

\* The loop once more after a failed parse.
BreakNever(d) == d

\* Err(_) => break, and the return to draw_formula, which goes on to the next
\* paragraph.
Break(d) ==
  [d EXCEPT !.st = "pass", !.rest = Tail(@), !.fmla = Append(@, d.g)]

\* One turn of the loop, p the parse and x the exec if the parse was Ok.
Turn(d, p, x) ==
  IF p.err # "" THEN Break(d)
  ELSE IF x.err # NoErr THEN Continue(d)
  ELSE [d EXCEPT !.g = @ \o Pushed(d, p.val, x.val), !.i = @ + 1]

\* The longest paragraph tried in full, and the characters it is made of.
MaxLineLen == 3

RenderChars == {"x", "1", ".", "+", "=", " ", "(", ")", ESCAPE}

Paragraphs == UNION {[1..k -> RenderChars] : k \in 0..MaxLineLen}

\* Buffers of two paragraphs, one binding and one using a variable.
Binders == {<<"x", "=", "1">>, <<"y", "=", "x">>, <<"1", " ", "x", "=", "1", "+", "1">>}

Users == {<<"x">>, <<"x", "+", "y">>, <<"y", "=", "x", "+", "1", " ", "y">>}

\* Longer paragraphs: a clause after one that fails to parse or to evaluate.
Longer ==
  {<<"1", " ", ")", "1">>, <<"(", "1", " ", "1">>, <<"1", "x", " ", "1">>,
   <<"1", " ", "x", " ", "1", "+", "1">>}

DrawInputs ==
  {<<l>> : l \in Paragraphs \cup Longer \cup Binders \cup Users}
    \cup {<<a, b>> : a \in Binders \cup Users, b \in Binders \cup Users}

InitRender ==
  /\ NoText
  /\ NoRdl

\* draw_formula up to its loop over the paragraphs.
DrawFormula ==
  /\ draw.st \in {"none", "drawn"}
  /\ \E buf \in DrawInputs, debug \in BOOLEAN :
       /\ draw' = [st |-> "pass", rest |-> buf, g |-> <<>>, i |-> 0,
                   fmla |-> <<>>, debug |-> debug]
       /\ rcall' = RCall("draw_formula", buf, <<>>, "", <<>>)
  /\ cxt' = Context_new_with_stdlib
  /\ UNCHANGED <<scanner, returned>>
  /\ UNCHANGED textvars
  /\ UNCHANGED edvars

\* render_with_options up to its loop, on the next paragraph.
RenderLine ==
  /\ draw.st = "pass"
  /\ draw.rest # <<>>
  /\ scanner' = Scanner_new(Head(draw.rest))
  /\ draw' = [draw EXCEPT !.st = "loop", !.g = <<>>, !.i = 0]
  /\ rcall' = RCall("render_with_options", Head(draw.rest), cxt, "", <<>>)
  /\ UNCHANGED <<returned, cxt>>
  /\ UNCHANGED textvars
  /\ UNCHANGED edvars

\* One turn of the loop of render_with_options.
Iterate ==
  /\ draw.st = "loop"
  /\ \E p \in {parse(scanner)} :
       \E x \in {IF p.err # "" THEN XErr(cxt, NoErr)
                 ELSE ClauseExec(p.val.ast, cxt)} :
         /\ scanner' = p.sc
         /\ cxt' = x.cxt
         /\ draw' = Turn(draw, p, x)
         /\ rcall' = RCall("loop", [sc |-> scanner, d |-> draw], cxt, p.err,
                           [exp |-> p.val, xerr |-> x.err, res |-> x.val])
  /\ UNCHANGED returned
  /\ UNCHANGED textvars
  /\ UNCHANGED edvars

\* The return of draw_formula, after the last paragraph.
Drawn ==
  /\ draw.st = "pass"
  /\ draw.rest = <<>>
  /\ draw' = [NoDraw EXCEPT !.st = "drawn"]
  /\ scanner' = Scanner_new(<<>>)
  /\ rcall' = RCall("drawn", <<>>, <<>>, "", <<>>)
  /\ UNCHANGED <<returned, cxt>>
  /\ UNCHANGED textvars
  /\ UNCHANGED edvars

NextRender == DrawFormula \/ RenderLine \/ Iterate \/ Drawn

SpecRender == InitRender /\ [][NextRender]_vars

\* The loop of render_with_options runs on: nothing else is waiting for it.
SpecRenderLive == SpecRender /\ WF_vars(Iterate)

\* The selection calls alone, on every text.
NextSelect == SelectWithin \/ SelectNone \/ SelectedText \/ Return

SpecSelect == Init /\ [][NextSelect]_vars

\* Selections of ranges of the text, and the calls that change the text.
NextSelEdit ==
  \/ SelectWithin \/ SelectNone \/ Insert \/ Backspace \/ Delete \/ Edit
  \/ Return

SpecSelEdit == Init /\ [][NextSelEdit]_vars

(***************************************************************************)
(* Text::paragraphs and the iterator Lines (src/src/text/mod.rs).          *)
(***************************************************************************)
\* A faulty loop, which stops after every line.
ParagraphEndEach(metrics, idx) == idx

\* The loop of Lines::next from line idx (1-based) on: the position of the
\* line it stops after, which is the first hard line or the last line.
RECURSIVE ParagraphEnd(_, _)
ParagraphEnd(metrics, idx) ==
  IF idx >= Len(metrics) \/ metrics[idx].hard THEN idx
  ELSE ParagraphEnd(metrics, idx + 1)

\* Lines::next over and over, from line idx on: the items, each the slice
\* &text[boff..bext] and the number of lines; an item that is not ok, and
\* the last, where the slice panics.
RECURSIVE LinesFrom(_, _)
LinesFrom(self, idx) ==
  IF idx > Len(self.lines) THEN <<>>
  ELSE The({ IF ~SliceOk(self.text, self.lines[idx].boff,
                         self.lines[e].boff + self.lines[e].bytes)
             THEN <<[ok |-> FALSE, str |-> <<>>, n |-> 0]>>
             ELSE <<[ok |-> TRUE,
                     str |-> Slice(self.text, self.lines[idx].boff,
                                   self.lines[e].boff + self.lines[e].bytes),
                     n |-> e + 1 - idx]>> \o LinesFrom(self, e + 1) :
             e \in {ParagraphEnd(self.lines, idx)} })

\* text.paragraphs() iterated to its end.
paragraphs(self) == LinesFrom(self, 1)

IterParagraphs ==
  /\ Idle
  /\ Apply("paragraphs", 0, 0, "", "",
           Result(Self, [kind |-> "items", pos |-> ZERO_POS, str |-> paragraphs(Self)]))

NextParagraphs == IterParagraphs

SpecParagraphs == Init /\ [][NextParagraphs]_vars

(***************************************************************************)
(* What the claims compare the code with.                                  *)
(***************************************************************************)
\* t with c put before the codepoint of 0-based index at.
InsertAt(t, at, c) == SubSeq(t, 1, at) \o <<c>> \o SubSeq(t, at + 1, Len(t))

\* t without the codepoints of 0-based indices in [a, b).
CutRange(t, a, b) == SubSeq(t, 1, a) \o SubSeq(t, b + 1, Len(t))

\* The buffer a call found: the text before it, laid out at the same width.
Before == new_with_str(width, call.pre)

\* idx is next to a newline: on it, or directly after it.
AtHardBreak(self, idx) ==
  \E i \in 1..Len(self.lines) :
    self.lines[i].hard /\ idx \in {self.lines[i].cext - 1, self.lines[i].cext}

\* C1: for any text and width >= 1, layout(text, width) partitions the
\* codepoints gap-free and in order: the first line starts at 0, each line ends
\* where the next starts, lines are numbered from 0, the last line ends at the
\* number of codepoints, and the empty text (and only it) yields no line.
C1_LayoutPartition ==
  LET ls == layout(text, width)
  IN  /\ (text = <<>>) = (ls = <<>>)
      /\ ls # <<>> => ls[1].coff = 0 /\ ls[Len(ls)].cext = Len(text)
      /\ \A i \in 1..(Len(ls) - 1) : ls[i].cext = ls[i + 1].coff
      /\ \A i \in 1..Len(ls) : ls[i].num = i - 1

\* A text laid out on several lines, one closed by a newline and one closed by
\* a soft break that swallowed whitespace.
C1_Witness ==
  LET ls == layout(text, width)
  IN  /\ Len(ls) >= 2
      /\ \E i \in 1..Len(ls) : ls[i].hard
      /\ \E i \in 1..Len(ls) : ~ls[i].hard /\ ls[i].cext > ls[i].coff + ls[i].chars

\* C2: every line of layout(text, width) has coff + chars <= cext: the
\* displayed region lies within the consumed region.
C2_DisplayedWithinConsumed ==
  LET ls == layout(text, width)
  IN  \A i \in 1..Len(ls) : ls[i].coff + ls[i].chars <= ls[i].cext

\* C3: insert(idx, c) leaves the text with c at index idx (at the end when
\* idx > len()), the codepoints before and after it unchanged and in order,
\* and returns index(idx + 1).
C3_InsertPlacesChar ==
  call.op = "insert" /\ call.a <= Len(call.pre) + 1 =>
    /\ call.ret.kind = "pos"
    /\ text = InsertAt(call.pre, min(call.a, Len(call.pre)), call.c)
    /\ call.ret.pos = index(Self, call.a + 1)

\* C4: insert(idx, c) with idx <= len(), followed by backspace at the index of
\* the returned cursor, restores the original text.
C4_InsertBackspaceRoundTrip ==
  call.op = "insert" /\ call.a <= Len(call.pre) /\ call.ret.kind = "pos" =>
    \A checks \in BOOLEAN :
      LET r == backspace(Self, call.ret.pos.index, checks)
      IN  r.ret.kind = "pos" /\ r.self.text = call.pre

\* C5: for 1 <= idx <= len(), backspace(idx) removes exactly the codepoint at
\* index idx - 1 and returns index(idx - 1); backspace(0) is a no-op that
\* returns ZERO_POS.
C5_BackspaceRemovesPrevious ==
  call.op = "backspace" =>
    /\ (1 <= call.a /\ call.a <= Len(call.pre)) =>
         /\ call.ret.kind = "pos"
         /\ text = CutRange(call.pre, call.a - 1, call.a)
         /\ call.ret.pos = index(Self, call.a - 1)
    /\ call.a = 0 => call.ret = SomePos(ZERO_POS) /\ text = call.pre

\* C6: for a <= b <= len() with a < len(), delete(a..b) removes exactly the
\* codepoints of indices [a, b) and returns Some(pos) with pos.index = a; edit
\* with Operation::Delete and movement m deletes exactly the codepoints between
\* idx and the destination of m.
C6_DeleteRemovesRange ==
  /\ (call.op = "delete" /\ call.a <= call.b /\ call.b <= Len(call.pre)
        /\ call.a < Len(call.pre)) =>
       /\ call.ret.kind = "pos"
       /\ call.ret.pos.index = call.a
       /\ text = CutRange(call.pre, call.a, call.b)
  /\ (call.op = "edit" /\ call.o = "Delete" /\ call.a <= Len(call.pre)) =>
       LET dest == to(Before, call.a, call.c, TRUE)
       IN  dest.kind = "pos" =>
             text = CutRange(call.pre, min(call.a, dest.pos.index),
                             max(call.a, dest.pos.index))

\* C7: no Text operation panics, for any index or range argument on any buffer.
C7_NoPanic == call.ret.kind # "panic"

\* C8: index(idx).index = min(idx, len()) and index(0) = ZERO_POS; every Pos
\* returned by left, right, up, down, home, end, insert, backspace, delete and
\* select has its index in [0, len()] of the buffer as it is after the operation.
C8_PosIndexInRange ==
  /\ call.op = "index" =>
       /\ call.ret.kind = "pos"
       /\ call.ret.pos.index = min(call.a, len(Self))
       /\ call.a = 0 => call.ret.pos = ZERO_POS
  /\ (call.op \in {"left", "right", "up", "down", "home", "end", "insert",
                   "backspace", "delete", "select"} /\ call.ret.kind = "pos") =>
       (0 <= call.ret.pos.index /\ call.ret.pos.index <= len(Self))

\* A selection whose end lies past the text returned the clamped position.
C8_Witness ==
  /\ call.op = "select"
  /\ call.b > len(Self)
  /\ len(Self) > 0
  /\ call.ret.kind = "pos"
  /\ call.ret.pos.index = len(Self)

\* C9, as claimed: for every idx that is not at a hard line-break boundary,
\* left(right(idx).index) = index(idx).
C9_LeftOfRight_Original ==
  (call.op = "right" /\ call.a <= Len(text) + 1 /\ call.ret.kind = "pos"
     /\ ~AtHardBreak(Self, call.a)) =>
    left(Self, call.ret.pos.index) = index(Self, call.a)

\* C9, amended: for every idx < len() that is not at a hard line-break
\* boundary, right(idx) returns a Pos and left(right(idx).index) = index(idx).
C9_LeftOfRight ==
  (call.op = "right" /\ call.a < len(Self) /\ ~AtHardBreak(Self, call.a)) =>
    /\ call.ret.kind = "pos"
    /\ left(Self, call.ret.pos.index) = index(Self, call.a)

\* right stepped over a soft break to the next row, away from any newline.
C9_Witness ==
  /\ call.op = "right"
  /\ call.a < len(Self)
  /\ ~AtHardBreak(Self, call.a)
  /\ call.ret.kind = "pos"
  /\ call.ret.pos.y = index(Self, call.a).y + 1

\* C10: with (x, y) the column and row of index(idx): on a row y >= 1, up(idx)
\* returns row y - 1, column x' = min(x, lines[y-1].chars) and index
\* lines[y-1].coff + x'; on a row with a following row, down(idx) returns row
\* y + 1, column x' = min(x, lines[y+1].chars) and index lines[y+1].coff + x';
\* on the first row up returns ZERO_POS; on the last row down returns the end
\* of the text; neither fails.
C10_UpDown ==
  LET p  == index(Self, call.a)
      nl == Len(lines)
  IN  /\ call.op = "up" =>
           /\ call.ret.kind = "pos"
           /\ p.y = 0 => call.ret.pos = ZERO_POS
           /\ p.y >= 1 =>
                LET l  == lines[p.y]
                    x1 == min(p.x, l.chars)
                IN  call.ret.pos = Pos(l.coff + x1, x1, p.y - 1)
      /\ call.op = "down" =>
           /\ call.ret.kind = "pos"
           /\ p.y + 1 < nl =>
                LET l  == lines[p.y + 2]
                    x1 == min(p.x, l.chars)
                IN  call.ret.pos = Pos(l.coff + x1, x1, p.y + 1)
           /\ p.y + 1 >= nl => call.ret.pos.index = len(Self)

\* up from a column past the end of the row above: the ragged-edge clamp.
C10_Witness ==
  LET p == index(Self, call.a)
  IN  /\ call.op = "up"
      /\ p.y >= 1
      /\ p.x > lines[p.y].chars
      /\ call.ret.pos = Pos(Line_right(lines[p.y]), lines[p.y].chars, p.y - 1)


\* C11: select(Some(r), extend) stores a half-open codepoint range: with extend
\* and an existing selection s the new selection is
\* min(s.start, r.start)..max(s.end, r.end); with no existing selection or
\* without extend it is exactly r; select(None, _) clears the selection and
\* returns None.
C11_SelectStores ==
  call.op = "select" =>
    IF call.c = "None" THEN sel = NoSel /\ call.ret = NonePos
    ELSE LET r == Range(call.a, call.b)
             s == call.sel0
         IN  /\ call.ret.kind = "pos"
             /\ sel = IF call.o = "extend" /\ s # NoSel
                      THEN Range(min(s[1], r[1]), max(s[2], r[2]))
                      ELSE r

\* An extending select whose union differs from both the old selection and
\* the new range.
C11_Witness ==
  /\ call.op = "select" /\ call.c = "Some" /\ call.o = "extend"
  /\ call.sel0 # NoSel
  /\ sel # call.sel0
  /\ sel # Range(call.a, call.b)
  /\ sel = Range(min(call.sel0[1], call.a), max(call.sel0[2], call.b))

\* C12: for a selection a..b with a <= b <= len(), selected_text() returns
\* exactly the codepoints of indices [a, b); it returns None iff there is no
\* selection.
C12_SelectedText ==
  call.op = "selected_text" =>
    /\ (call.ret.kind = "none") = (sel = NoSel)
    /\ (sel # NoSel /\ sel[1] <= sel[2] /\ sel[2] <= len(Self)) =>
         call.ret = SomeStr(SubSeq(text, sel[1] + 1, sel[2]))

\* C13: every line's boff, bext and bytes are the UTF-8 byte lengths of the
\* first coff codepoints, the first cext codepoints and the codepoints
\* coff..coff+chars of the text, so Line::text slices on codepoint boundaries.
C13_ByteMetrics ==
  LET ls == layout(text, width)
  IN  \A i \in 1..Len(ls) :
        LET l == ls[i]
        IN  /\ l.boff  = BytePrefix(text, l.coff)
            /\ l.bext  = BytePrefix(text, l.cext)
            /\ l.bytes = ByteLen(SubSeq(text, l.coff + 1, l.coff + l.chars))
            /\ SliceOk(text, l.boff, l.boff + l.bytes)

\* A second line that starts after a multi-byte codepoint and displays one.
C13_Witness ==
  LET ls == layout(text, width)
  IN  /\ Len(ls) >= 2
      /\ ls[2].boff > ls[2].coff
      /\ ls[2].bytes > ls[2].chars

\* rs tiles [from, n): each range starts where the one before it ended, the
\* first at from, and the last ends at n.
RECURSIVE Tiles(_, _, _)
Tiles(rs, from, n) ==
  IF rs = <<>> THEN from = n
  ELSE Head(rs)[1] = from /\ Head(rs)[1] <= Head(rs)[2]
       /\ Tiles(Tail(rs), Head(rs)[2], n)

\* token() has just returned End.
AtEnd == rcall.op = "token" /\ rcall.err = "" /\ rcall.val.ttype = "End"

\* C14: when token() returns End, the byte ranges of the tokens token()
\* returned before it tile the input: the first starts at byte 0, each starts
\* where the one before ended, and the last ends at the input's byte length.
C14_TokensTile == AtEnd => Tiles(returned, 0, ByteLen(scanner.text))

\* C15: whatever calls were made on the scanner, its look-ahead buffer holds
\* at most one token.
C15_BufferAtMostOne == Len(scanner.tokens) <= 1

C15_Witness ==
  /\ rcall.op \in {"la", "la_range", "expect_token", "discard"}
  /\ Len(scanner.tokens) = 1
  /\ scanner.index < ByteLen(scanner.text)

\* What a primary of Primaries stands for.
PrimaryAst(p) ==
  CASE p = <<"x">>                     -> new_ident(<<"x">>)
    [] p = <<"1">>                     -> new_number(<<1, 1>>)
    [] p = <<"(", "x", ")">>           -> new_ident(<<"x">>)
    [] p = <<"(", "1", "-", "x", ")">> ->
         new_sub(new_number(<<1, 1>>), new_ident(<<"x">>))
    [] p = <<"1", " ", "k", "g">>      ->
         new_typecast(new_number(<<1, 1>>), new_ident(<<"k", "g">>))
    [] p = <<"x", " ", "k", "g">>      ->
         new_typecast(new_ident(<<"x">>), new_ident(<<"k", "g">>))

\* op2(op1(a, b), c)
LeftChained(in) ==
  ArithNode(in.op2, ArithNode(in.op1, PrimaryAst(in.a), PrimaryAst(in.b)),
            PrimaryAst(in.c))

\* The first parse() on the chain has returned.
FirstParse == rcall.op = "parse" /\ rcall.pre = 1

\* C16: for any primaries a, b, c and operators op1, op2, the first parse()
\* of 'a op1 b op2 c' succeeds with the tree op2(op1(a, b), c): operators
\* chain left to right at one precedence and only parentheses regroup.
C16_LeftToRight ==
  FirstParse => rcall.err = "" /\ rcall.val.ast = LeftChained(rcall.arg)

\* The conversion the documentation gives a cast of v to the unit named
\* tcast: <<>> when the conversion table has no factor.
Cast(v, tcast) ==
  The({ IF u = NoUnit THEN <<v>> ELSE convert(v, u) : u \in {Unit_from(tcast)} })

\* exec was called on a Typecast whose right child is an Ident and whose left
\* child evaluates
CastDone ==
  /\ rcall.op = "exec"
  /\ rcall.arg[1] = "Typecast"
  /\ rcall.arg[3][1] = "Ident"
  /\ exec(rcall.arg[2], rcall.pre).err = NoErr

\* C17: exec of Typecast(lhs, Ident(u)) returns the value of lhs converted to
\* the unit u names (an untyped value gets the unit attached), and the value
\* of lhs unchanged when u names no unit.
C17_TypecastConverts ==
  CastDone =>
    /\ rcall.err = NoErr
    /\ <<rcall.val>> = Cast(exec(rcall.arg[2], rcall.pre).val, rcall.arg[3][4])

\* node has an Assign to the name n in it
RECURSIVE AssignsTo(_, _)
AssignsTo(node, n) ==
  \/ node[1] = "Assign" /\ node[2][1] = "Ident" /\ node[2][4] = n
  \/ node[2] # NoField /\ AssignsTo(node[2], n)
  \/ node[3] # NoField /\ AssignsTo(node[3], n)

AssignDone == rcall.op = "exec" /\ rcall.arg[1] = "Assign" /\ rcall.err = NoErr

\* After an Assign to x the Context maps x to the value returned, and the
\* other names to what the evaluation of the right side left them.
AssignBinds ==
  AssignDone =>
    /\ Context_get(cxt, rcall.arg[2][4]) = <<rcall.val>>
    /\ \A n \in Names \ {rcall.arg[2][4]} :
         Context_get(cxt, n) = Context_get(exec(rcall.arg[3], rcall.pre).cxt, n)

\* exec of Ident(x) returns what the Context maps x to, and changes nothing.
LookupStep ==
  (rcall'.op = "exec" /\ rcall'.arg[1] = "Ident" /\ rcall'.arg[4] \in DOMAIN cxt) =>
    /\ rcall'.err = NoErr
    /\ rcall'.val = cxt[rcall'.arg[4]]
    /\ cxt' = cxt

\* The binding of a name changes only in an exec of a node that assigns it.
KeepStep ==
  \A n \in Names :
    Context_get(cxt', n) # Context_get(cxt, n) =>
      rcall'.op = "exec" /\ AssignsTo(rcall'.arg, n)

\* C18: after exec of Assign(Ident(x), rhs) succeeds with v, exec returned v
\* and the Context maps x to v; later execs of Ident(x) return the binding,
\* which stays until x is assigned again; other names keep their bindings.
C18_AssignPersists == []AssignBinds /\ [][LookupStep /\ KeepStep]_vars

\* x was assigned 2 by an earlier exec and a later exec of Ident(x) found it.
C18_Witness ==
  /\ rcall.op = "exec"
  /\ rcall.arg = new_ident(<<"x">>)
  /\ rcall.err = NoErr
  /\ rcall.val = raw(<<2, 1>>)
  /\ <<"y">> \in DOMAIN cxt

Absent(node, c) == node[1] = "Ident" /\ node[4] \notin DOMAIN c

\* The operand of node that is an identifier absent from the Context when it
\* is evaluated, as <<side, name>>; <<>> when there is none.
AbsentOperand(node, c) ==
  CASE node[1] \in ArithTypes ->
         IF Absent(node[2], c) THEN <<": Could not exec left: ", node[2][4]>>
         ELSE The({ IF l.err = NoErr /\ Absent(node[3], l.cxt)
                    THEN <<": Could not exec right: ", node[3][4]>> ELSE <<>> :
                    l \in {exec(node[2], c)} })
    [] node[1] = "Typecast" ->
         IF node[3][1] = "Ident" /\ Absent(node[2], c)
         THEN <<": Could not exec left: ", node[2][4]>> ELSE <<>>
    [] node[1] = "Assign" ->
         IF node[2][1] = "Ident" /\ Absent(node[3], c)
         THEN <<": Could not exec right: ", node[3][4]>> ELSE <<>>
    [] OTHER -> <<>>

\* C19 as stated: an absent identifier fails with UnboundVariable(name), as
\* the whole expression and as an operand of an arithmetic, Assign or
\* Typecast node alike.
C19_UnboundVariable ==
  rcall.op = "exec" =>
    /\ Absent(rcall.arg, rcall.pre) => rcall.err = UnboundVariable(rcall.arg[4])
    /\ AbsentOperand(rcall.arg, rcall.pre) # <<>> =>
         rcall.err = UnboundVariable(AbsentOperand(rcall.arg, rcall.pre)[2])

\* C19: an absent identifier fails with UnboundVariable(name) as the whole
\* expression; as an operand, the enclosing exec fails with InvalidASTNode
\* whose message holds the text of UnboundVariable(name).
C19_UnboundWrapped ==
  rcall.op = "exec" =>
    /\ Absent(rcall.arg, rcall.pre) => rcall.err = UnboundVariable(rcall.arg[4])
    /\ AbsentOperand(rcall.arg, rcall.pre) # <<>> =>
         rcall.err =
           InvalidASTNode(<<rcall.arg[1], AbsentOperand(rcall.arg, rcall.pre)[1],
                            Display(UnboundVariable(
                              AbsentOperand(rcall.arg, rcall.pre)[2]))>>)

\* An arithmetic node whose right operand is absent while another name is bound.
C19_Witness ==
  /\ rcall.op = "exec"
  /\ rcall.arg[1] \in ArithTypes
  /\ AbsentOperand(rcall.arg, rcall.pre) = <<": Could not exec right: ", <<"y">>>>
  /\ <<"x">> \in DOMAIN rcall.pre
  /\ rcall.err # NoErr

Operated == rcall.op \in ArithTypes

\* The f64 of v in the unit target, v's own when there is no conversion.
InTarget(v, target) ==
  The({ IF conv = <<>> THEN v.value ELSE conv[1].value :
        conv \in {convert(v, target)} })

\* The result of operator t on lhs and rhs when target is the unit chosen.
ResultIn(t, lhs, rhs, target) ==
  Value(f64_op(t, InTarget(lhs, target), InTarget(rhs, target)), target)

LeftFirst(lhs, rhs) == IF lhs.unit # NoUnit THEN lhs.unit ELSE rhs.unit

RightFirst(lhs, rhs) == IF rhs.unit # NoUnit THEN rhs.unit ELSE lhs.unit

\* C20 as stated: the result's unit is the left operand's when it has one,
\* otherwise the right's, otherwise None, and both operands are converted
\* into it before the operator is applied.
C20_TargetLeftFirst ==
  Operated =>
    /\ convert(rcall.arg[1], LeftFirst(rcall.arg[1], rcall.arg[2])) # <<>>
    /\ convert(rcall.arg[2], LeftFirst(rcall.arg[1], rcall.arg[2])) # <<>>
    /\ rcall.val = ResultIn(rcall.op, rcall.arg[1], rcall.arg[2],
                            LeftFirst(rcall.arg[1], rcall.arg[2]))

\* C20: the result's unit is the right operand's when it has one, otherwise
\* the left's, otherwise None; each operand is converted into it before the
\* operator is applied, or un-typed when it cannot be converted.
C20_TargetRightFirst ==
  Operated =>
    rcall.val = ResultIn(rcall.op, rcall.arg[1], rcall.arg[2],
                         RightFirst(rcall.arg[1], rcall.arg[2]))

\* 3 tsp * 2 tbsp = 2 tbsp
C20_Witness ==
  /\ rcall.op = "Mul"
  /\ rcall.arg = <<Value(<<3, 1>>, "Teaspoon"), Value(<<2, 1>>, "Tablespoon")>>
  /\ rcall.val = Value(<<2, 1>>, "Tablespoon")

\* The three families of the documentation.
Family(u) ==
  CASE u \in {"Teaspoon", "Tablespoon", "Cup", "Quart", "Gallon"} -> "imperial volume"
    [] u \in {"Liter", "Deciliter", "Centiliter", "Milliliter"}   -> "metric volume"
    [] u \in {"Gram", "Kilogram"}                                 -> "mass"

\* Volume and mass.
Group(u) == IF Family(u) = "mass" THEN "mass" ELSE "volume"

\* convert(Some(to)) was called on a value that has a unit
ConvertDone ==
  rcall.op = "convert" /\ rcall.arg[1].unit # NoUnit /\ rcall.arg[2] # NoUnit

\* C21 as stated: between two of the three families convert returns None and
\* the factor is 0.0; within a family convert returns Some.
C21_ThreeFamilies ==
  ConvertDone =>
    IF Family(rcall.arg[1].unit) = Family(rcall.arg[2])
    THEN rcall.val # <<>>
    ELSE rcall.val = <<>> /\ CONVERSION(rcall.arg[1].unit, rcall.arg[2]) = <<0, 1>>

\* C21: between volume and mass convert returns None and the factor is 0.0,
\* so that a zero factor is never multiplied with; within volume (imperial
\* and metric alike) and within mass convert returns Some.
C21_TwoGroups ==
  ConvertDone =>
    IF Group(rcall.arg[1].unit) = Group(rcall.arg[2])
    THEN rcall.val # <<>> /\ CONVERSION(rcall.arg[1].unit, rcall.arg[2]) # <<0, 1>>
    ELSE rcall.val = <<>> /\ CONVERSION(rcall.arg[1].unit, rcall.arg[2]) = <<0, 1>>

\* a volume asked for as a mass
C21_Witness ==
  /\ rcall.op = "convert"
  /\ rcall.arg = <<Value(<<2, 1>>, "Cup"), "Kilogram">>
  /\ rcall.val = <<>>

\* The unit u is the up() of, NoUnit for the bottom of a chain.
Unit_down(u) ==
  IF \E i \in 1..Len(Units) : Unit_up(Units[i]) = u
  THEN Units[CHOOSE i \in 1..Len(Units) : Unit_up(Units[i]) = u]
  ELSE NoUnit

\* The number of up() steps from the bottom of its chain to u.
RECURSIVE Rank(_)
Rank(u) == IF Unit_down(u) = NoUnit THEN 0 ELSE 1 + Rank(Unit_down(u))

\* The units of the up() chain of u.
Chain_of(u) ==
  {Units[i] : i \in {j \in 1..Len(Units) : Family(Units[j]) = Family(u)}}

Bottom(u) == CHOOSE w \in Chain_of(u) : Rank(w) = 0

Top(u) == CHOOSE w \in Chain_of(u) : Unit_up(w) = NoUnit

\* The quantity v in the unit w of its chain, one level of the table at a time.
RECURSIVE StepTo(_, _)
StepTo(v, w) ==
  IF v.unit = w THEN v
  ELSE The({ StepTo(Value(f64_op("Mul", v.value, CONVERSION(v.unit, nxt)), nxt), w) :
             nxt \in {IF Rank(v.unit) < Rank(w) THEN Unit_up(v.unit)
                      ELSE Unit_down(v.unit)} })

BaseDone == rcall.op = "base" /\ rcall.arg.unit # NoUnit

BaseUnit(u) ==
  IF Family(u) = "metric volume" THEN Top(u) ELSE Bottom(u)

PackDone == rcall.op = "pack" /\ rcall.arg.unit # NoUnit

\* The units of the chain of v, from rank `from` up, in which v is >= 1 when
\* magnitude is FALSE and its magnitude is when it is TRUE.
AtLeastOne(v, from, magnitude) ==
  {w \in Chain_of(v.unit) :
     /\ Rank(w) >= from
     /\ ~f64_lt(IF magnitude
                THEN <<Abs(StepTo(v, w).value[1]), StepTo(v, w).value[2]>>
                ELSE StepTo(v, w).value, <<1, 1>>)}

\* The one of highest rank among the units S.
Largest(S) == CHOOSE w \in S : \A w2 \in S : Rank(w2) <= Rank(w)

\* C23 as stated: pack() returns the value in the largest unit of its family
\* in which its magnitude is >= 1, and packing again changes nothing.
C23_PackLargest ==
  (PackDone /\ AtLeastOne(rcall.arg, 0, TRUE) # {}) =>
    /\ rcall.val = StepTo(rcall.arg, Largest(AtLeastOne(rcall.arg, 0, TRUE)))
    /\ pack(rcall.val) = rcall.val

\* C23: pack() returns the value in the largest unit, at or above its own in
\* its family, in which the value is >= 1, and the value as it is when it is
\* below 1 in its own unit; packing again changes nothing.
C23_PackClimbs ==
  PackDone =>
    /\ rcall.val =
         IF AtLeastOne(rcall.arg, Rank(rcall.arg.unit), FALSE) = {} THEN rcall.arg
         ELSE StepTo(rcall.arg,
                     Largest(AtLeastOne(rcall.arg, Rank(rcall.arg.unit), FALSE)))
    /\ pack(rcall.val) = rcall.val

\* 48 tsp pack to 1 cup, two levels up
C23_Witness ==
  /\ rcall.op = "pack"
  /\ rcall.arg = Value(<<48, 1>>, "Teaspoon")
  /\ rcall.val = Value(<<1, 1>>, "Cup")

\* The calls that move or select.
MoveOps == {"index", "left", "right", "up", "down", "home", "end", "select"}

\* A movement or a select leaves text and lines as they are.
MoveKeeps == call'.op \in MoveOps => text' = text /\ lines' = lines

\* C27: in every reachable state the stored lines are layout(text, width) of
\* the current text, and movement and select change neither text nor lines.
C27_LinesFresh == [](lines = layout(text, width)) /\ [][MoveKeeps]_vars

\* set_text has replaced a longer text and the lines are those of the new one.
C27_Witness ==
  /\ call.op = "set_text"
  /\ Len(call.pre) = MaxLen
  /\ text = <<"a", "\n">>
  /\ Len(lines) = 1

\* The start of the next non-whitespace run after idx, the end of t if none.
WordStart(t, idx) ==
  IF \E j \in (idx + 1)..(Len(t) - 1) : ~is_whitespace(t[j + 1]) /\ is_whitespace(t[j])
  THEN CHOOSE j \in (idx + 1)..(Len(t) - 1) :
         /\ ~is_whitespace(t[j + 1]) /\ is_whitespace(t[j])
         /\ \A k \in (idx + 1)..(j - 1) : ~(~is_whitespace(t[k + 1]) /\ is_whitespace(t[k]))
  ELSE Len(t)

\* edit(idx, Movement::Word, Operation::Move) was called with idx in the text
WordMoved ==
  call.op = "edit" /\ call.c = "Word" /\ call.o = "Move" /\ call.a <= Len(call.pre)

\* C29: Movement::Word from idx moves to the start of the next non-whitespace
\* run after idx, or to the end of the text when there is none (a None leaves
\* the cursor where it is, as edit_rel does with it).
C29_WordMovesToNextRun ==
  WordMoved =>
    /\ call.ret.kind \in {"pos", "none"}
    /\ WordStart(call.pre, call.a) =
         IF call.ret.kind = "pos" THEN call.ret.pos.index ELSE call.a

\* What the next token() gives: its error and the token.
NextOf(sc) == The({ <<r.err, r.val>> : r \in {token(sc)} })

\* la() and la_range() leave what the next token() gives as it was.
LaKeepsNext ==
  rcall'.op \in {"la", "la_range"} => NextOf(scanner') = NextOf(scanner)

\* A second la() or la_range() returns what the first did, and the token that
\* la() named is the one token() then returns.
LaAgain ==
  /\ rcall.op = "la" =>
       /\ la(scanner).val = rcall.val
       /\ rcall.val # NoToken =>
            NextOf(scanner)[1] = "" /\ NextOf(scanner)[2].ttype = rcall.val
  /\ rcall.op = "la_range" => la_range(scanner).val = rcall.val

\* C30: la() and la_range() consume nothing: a second call returns the same,
\* the next token() is what it would have been, and it has the type la() gave.
C30_LookAheadPure == []LaAgain /\ [][LaKeepsNext]_vars


\* The last step was a turn of the render loop whose parse was Ok.
Evaluated == rcall.op = "loop" /\ rcall.err = ""

ExecFailed == Evaluated /\ rcall.val.xerr # NoErr

ExecOk == Evaluated /\ rcall.val.xerr = NoErr

IsText(piece) == piece.k \in {"res", "sep"}

IsRes(piece) == piece.k = "res"

\* Results with a separator between each two, and nothing else.
Joined(g) ==
  \E s \in {SelectSeq(g, IsText)} :
    /\ Len(s) = 0 \/ Len(s) % 2 = 1
    /\ \A j \in 1..Len(s) : s[j].k = (IF j % 2 = 1 THEN "res" ELSE "sep")

ResultsJoined ==
  /\ Joined(draw.g)
  /\ Len(SelectSeq(draw.g, IsRes)) = draw.i
  /\ \A j \in 1..Len(draw.fmla) : Joined(draw.fmla[j])

FailedSilent ==
  ExecFailed' =>
    /\ draw'.g = draw.g
    /\ draw'.i = draw.i
    /\ draw'.st = "loop"
    /\ scanner'.index >= scanner.index

OkAppends ==
  ExecOk' =>
    /\ Len(draw'.g) > Len(draw.g)
    /\ SubSeq(draw'.g, 1, Len(draw.g)) = draw.g
    /\ draw'.g[Len(draw'.g)] = Res(rcall'.val.res)
    /\ draw'.i = draw.i + 1
    /\ draw'.st = "loop"

\* C24: in the render pass over one line, a clause whose evaluation fails
\* pushes no text and no separator and the loop goes on with the rest of the
\* line; a clause that evaluates appends its result after what is there; the
\* output is the results of the evaluated clauses with "; " between each two.
C24_FailedClauseSilent == []ResultsJoined /\ [][FailedSilent /\ OkAppends]_vars

\* A clause failed to evaluate after one that gave a result.
C24_Witness == ExecFailed /\ draw.i > 0 /\ rcall.val.xerr[1] = "UnboundVariable"


\* The last step was a turn of the render loop whose parse failed: the loop
\* has ended.
ParseFailed == rcall.op = "loop" /\ rcall.err # ""

\* After the token the failed clause starts with, the line goes on with a
\* clause that parses and evaluates.
LaterClause(sc, c) ==
  \E t \in {token(sc)} :
    /\ t.err = ""
    /\ t.val.ttype # "End"
    /\ \E p \in {parse(t.sc)} :
         /\ p.err = ""
         /\ exec(p.val.ast, c).err = NoErr

\* C25: within one line a clause that fails to parse loses only that clause:
\* the render loop does not end while a later clause that parses and
\* evaluates is still unread.
C25_ParseFailureLosesOneClause == ParseFailed => ~LaterClause(scanner, cxt)


\* The names a buffer can bind, and the one the standard library binds.
PassNames == {<<"x">>, <<"y">>}

\* draw_formula starts from the standard constants and nothing else.
PassSeeded ==
  rcall'.op = "draw_formula" =>
    /\ Context_get(cxt', <<"p", "i">>) = <<raw(PI)>>
    /\ \A n \in PassNames : Context_get(cxt', n) = <<>>

\* Within a pass a binding changes only in the turn of a clause that assigns
\* the name: it is carried to the later clauses and the later paragraphs.
PassKeeps ==
  rcall'.op \in {"render_with_options", "loop", "drawn"} =>
    \A n \in PassNames \cup {<<"p", "i">>} :
      Context_get(cxt', n) # Context_get(cxt, n) =>
        Evaluated' /\ AssignsTo(rcall'.val.exp.ast, n)

\* A clause that is a name gives what the clauses before it bound the name
\* to, and fails if none of them bound it.
PassLooksUp ==
  (Evaluated' /\ rcall'.val.exp.ast[1] = "Ident") =>
    \E n \in {rcall'.val.exp.ast[4]} :
      IF n \in DOMAIN cxt
      THEN rcall'.val.xerr = NoErr /\ rcall'.val.res = cxt[n]
      ELSE rcall'.val.xerr = UnboundVariable(n)

\* A clause x = e that evaluates binds x to its result.
PassBinds ==
  (ExecOk' /\ rcall'.val.exp.ast[1] = "Assign") =>
    Context_get(cxt', rcall'.val.exp.ast[2][4]) = <<rcall'.val.res>>

\* C26: a render pass makes one Context holding the standard constants and
\* carries it through the paragraphs from the first to the last: a variable a
\* clause assigns is seen by every clause evaluated after it, on the same
\* line and on the later ones, and by none before it, and the next pass sees
\* no binding of this one.
C26_OneContextPerPass ==
  [][PassSeeded /\ PassKeeps /\ PassLooksUp /\ PassBinds]_vars

\* The second paragraph is the clause x, and gave what the first bound x to.
C26_Witness ==
  /\ ExecOk
  /\ rcall.val.exp.ast = new_ident(<<"x">>)
  /\ rcall.pre = Context_set(Context_new_with_stdlib, <<"x">>, raw(Rat(1, 1)))
  /\ rcall.arg.sc.text = <<"x">>
  /\ rcall.val.res = raw(Rat(1, 1))


\* Where the next token starts: that of the first token buffered, or else of
\* the first character not read.
Position(sc) ==
  IF Len(sc.tokens) > 0 THEN sc.tokens[1].range[1] ELSE sc.index

Exhausted(sc) == Len(sc.tokens) = 0 /\ sc.index >= Len(sc.text)

\* token() over and over, n times at most, comes to End, and each scan step it
\* makes on input that is not exhausted reads a character at least.
RECURSIVE TokensEnd(_, _)
TokensEnd(sc, n) ==
  n > 0 /\
  \E t \in {token(sc)} :
    /\ (Len(sc.tokens) = 0 /\ sc.index < Len(sc.text)) => t.sc.index > sc.index
    /\ \/ t.err = "" /\ t.val.ttype = "End"
       \/ TokensEnd(t.sc, n - 1)

\* From the start of a line, and from where each clause ends.
ScanAdvances ==
  draw.st = "loop" => TokensEnd(scanner, 2 * Len(scanner.text) + 2)

\* A parse that is Ok has taken a token at least.
ParseAdvances ==
  Evaluated' =>
    /\ Position(scanner') > Position(scanner)
    /\ rcall'.val.exp.range[2] > rcall'.val.exp.range[1]

\* The loop ends at the first parse that fails, and at no other turn; on
\* exhausted input parse fails.
EndsAtParseError ==
  /\ rcall'.op = "loop" => (draw'.st # "loop" <=> rcall'.err # "")
  /\ (rcall'.op = "loop" /\ Exhausted(scanner)) => rcall'.err # ""

\* C28: for every input line the render loop terminates: every scan step on
\* input that is not exhausted reads a character at least, every parse that
\* is Ok takes a token at least, token() called over and over comes to End,
\* and the loop ends at the first parse that fails, which happens on
\* exhausted input at the latest.
C28_RenderTerminates ==
  /\ []ScanAdvances
  /\ [][ParseAdvances /\ EndsAtParseError]_vars
  /\ (draw.st = "loop") ~> (draw.st # "loop")

\* The loop ended on exhausted input after two clauses.
C28_Witness ==
  /\ ParseFailed
  /\ draw.st = "pass"
  /\ Exhausted(scanner)
  /\ Len(draw.fmla[Len(draw.fmla)]) >= 3


\* The tokens a clause starts with, after what parse() discards: an
\* identifier and, after whitespace, an '='.
LeadIdent(sc) == token(discard_fn(sc, "Whitespace|Verbatim").sc)

LeadAssign(sc) == token(SkipWs(LeadIdent(sc).sc))

LeadsWithAssign(sc) ==
  /\ LeadIdent(sc).err = ""
  /\ LeadIdent(sc).val.ttype = "Ident"
  /\ LeadAssign(sc).err = ""
  /\ LeadAssign(sc).val.ttype = "Assign"

\* parse() returned an Expr and has taken the '='.
TookAssign ==
  /\ LeadsWithAssign(scanner)
  /\ rcall'.op = "parse"
  /\ rcall'.err = ""
  /\ Position(scanner') >= LeadAssign(scanner).val.range[2]

\* C31: whenever parse() takes an '=' directly after a leading identifier,
\* the expression it returns is Assign(that identifier, rhs); it is never an
\* arithmetic or typecast expression made of the identifier and of tokens
\* found after the '='.
C31_AssignProduction ==
  [][TookAssign =>
       /\ rcall'.val.ast[1] = "Assign"
       /\ rcall'.val.ast[2] = new_ident(LeadIdent(scanner).val.ttext)]_vars


\* The first n tokens of a clause other than whitespace, as token() gives
\* them, up to the end or the first error.
RECURSIVE Toks(_, _)
Toks(sc, n) ==
  IF n = 0 THEN <<>>
  ELSE The({ IF t.err # "" \/ t.val.ttype = "End" THEN <<>>
             ELSE IF t.val.ttype = "Whitespace" THEN Toks(t.sc, n)
             ELSE <<t.val>> \o Toks(t.sc, n - 1) : t \in {token(sc)} })

IsLeaf(tok) == tok.ttype \in {"Ident", "Number"}

IsUnit(tok) == tok.ttype = "Ident" /\ Unit_from(tok.ttext) # NoUnit

LeafOf(tok) ==
  IF tok.ttype = "Ident" THEN new_ident(tok.ttext)
  ELSE new_number(parse_f64(tok.ttext))

\* Typecast(leaf, unit) stands in the tree where a first primary stands.
RECURSIVE CastAtLeft(_, _, _)
CastAtLeft(node, leaf, u) ==
  \/ node[1] = "Typecast" /\ node[2] = leaf /\ node[3] = new_ident(u)
  \/ node[2] # NoField /\ CastAtLeft(node[2], leaf, u)

\* Typecast(leaf, unit) is the right operand of the first operator.
RECURSIVE CastAtRight(_, _, _, _)
CastAtRight(node, first, leaf, u) ==
  \/ /\ node[2] = first
     /\ node[3] = new_typecast(leaf, new_ident(u))
  \/ node[2] # NoField /\ CastAtRight(node[2], first, leaf, u)

\* What C32 asks of the Expr parse() returned for a clause of tokens ts.
UnitSuffixCast(ts, ast) ==
  /\ (Len(ts) >= 2 /\ IsLeaf(ts[1]) /\ IsUnit(ts[2]))
       => CastAtLeft(ast, LeafOf(ts[1]), ts[2].ttext)
  /\ (Len(ts) >= 4 /\ ts[1].ttype = "LParen" /\ IsLeaf(ts[2])
        /\ ts[3].ttype = "RParen" /\ IsUnit(ts[4]))
       => CastAtLeft(ast, LeafOf(ts[2]), ts[4].ttext)
  /\ (Len(ts) >= 4 /\ IsLeaf(ts[1]) /\ ~IsUnit(ts[1]) /\ ts[2].ttype = "Operator"
        /\ IsLeaf(ts[3]) /\ IsUnit(ts[4]))
       => CastAtRight(ast, LeafOf(ts[1]), LeafOf(ts[3]), ts[4].ttext)

\* C32: a primary directly followed, after optional whitespace, by an
\* identifier that names a unit parses to Typecast(primary, unit), whether
\* the primary is a number, an identifier or parenthesised and whether it is
\* the first primary of the clause or a right operand.
C32_UnitSuffixCasts ==
  [][(rcall'.op = "parse" /\ rcall'.err = "") =>
       UnitSuffixCast(Toks(discard_fn(scanner, "Whitespace|Verbatim").sc, 4),
                      rcall'.val.ast)]_vars


\* C36: the stored cursor is a codepoint index of the text, 0 <= loc <= len(),
\* in every state reached by insert_rel, backspace_rel, delete_rel,
\* select_rel, edit_rel, set_text and the movements at the cursor.
C36_CursorInText == 0 <= loc /\ loc <= len(Self)

\* C38 as stated: after edit_rel calls with Operation::Select the cursor is
\* an end of the selection, also when it has moved back toward the anchor.
C38_CursorAtSelectionEnd ==
  (call.op = "edit_rel_select" /\ sel # NoSel) => (loc = sel[1] \/ loc = sel[2])


SelectedAtCursor == call.op = "edit_rel_select" /\ sel # NoSel

\* The cursor is at the end of the selection that the call moved outward.
AtGrownEnd ==
  SelectedAtCursor' =>
    IF sel = NoSel
    THEN loc' \in {sel'[1], sel'[2]} /\ (sel'[1] # sel'[2] => loc' # loc)
    ELSE /\ sel'[2] > sel[2] => loc' = sel'[2]
         /\ sel'[1] < sel[1] => loc' = sel'[1]

\* C38: after edit_rel calls with Operation::Select the cursor is within the
\* selection, and it is at the end that the last call moved outward; a call
\* that moves the cursor back toward the anchor leaves the selection as it
\* was, with the cursor inside it.
C38_CursorWithinSelection ==
  /\ [](SelectedAtCursor => (sel[1] <= loc /\ loc <= sel[2]))
  /\ [][AtGrownEnd]_vars

\* The cursor has moved back and stands inside the selection.
C38_Witness == SelectedAtCursor /\ sel[1] < loc /\ loc < sel[2]


\* C39: a stored selection a..b is a range of the buffer as it is now,
\* a <= b <= len(), in every state reached by select, insert, backspace,
\* delete and edit.
C39_SelectionInText ==
  (sel # NoSel /\ call.ret.kind # "panic") =>
    (sel[1] <= sel[2] /\ sel[2] <= len(Self))


\* The number of '\n' in t, and whether text follows the last of them.
Newlines(t) == Cardinality({j \in 1..Len(t) : t[j] = "\n"})

OpenEnded(t) == Len(t) > 0 /\ t[Len(t)] # "\n"

RECURSIVE SumN(_)
SumN(items) == IF items = <<>> THEN 0 ELSE Head(items).n + SumN(Tail(items))

\* The 1-based position of the last line of item k.
LastLineOf(items, k) == SumN(SubSeq(items, 1, k))

Iterated == call.op = "paragraphs"

Items == call.ret.str

\* C34: paragraphs() yields one item per paragraph of the text, one per '\n'
\* and one more for text after the last '\n', each with the number of lines
\* the paragraph takes; the numbers sum to num_lines(); a hard line is the
\* last of its paragraph; a line is hard iff the last codepoint it consumes
\* is '\n'.
C34_OneItemPerParagraph ==
  Iterated =>
    /\ \A k \in 1..Len(Items) : Items[k].ok
    /\ Len(Items) = Newlines(text) + (IF OpenEnded(text) THEN 1 ELSE 0)
    /\ \A k \in 1..Len(Items) : Items[k].n >= 1
    /\ SumN(Items) = Len(lines)
    /\ \A j \in 1..Len(lines) :
         lines[j].hard => \E k \in 1..Len(Items) : LastLineOf(Items, k) = j
    /\ \A k \in 1..(Len(Items) - 1) : lines[LastLineOf(Items, k)].hard
    /\ \A j \in 1..Len(lines) :
         lines[j].hard <=>
           (lines[j].cext > lines[j].coff /\ text[lines[j].cext] = "\n")

\* One paragraph wrapped onto two lines, the second of them hard.
C34_Witness ==
  /\ Iterated
  /\ Len(Items) = 1
  /\ Items[1].n = 2
  /\ lines[2].hard


\* The state of the loop of layout after k codepoints of the text.
LayoutAfter(k) == LayoutLoop(SubSeq(text, 1, k), 1, width, LayoutInit)

\* C35: every line of the layout displays at most width codepoints, and the
\* remainder the loop holds after each codepoint, carried over a soft break
\* or not, is shorter than width.
C35_LinesWithinWidth ==
  /\ \A j \in 1..Len(lines) : lines[j].chars <= width
  /\ \A k \in 0..Len(text) : LayoutAfter(k).lc < width

\* A soft break in the middle of the text that carries a remainder over.
C35_Witness ==
  /\ Len(lines) >= 2
  /\ ~lines[1].hard
  /\ lines[1].chars = width
  /\ \E k \in 1..Len(text) :
       /\ Len(LayoutAfter(k).l) = 1
       /\ Len(LayoutAfter(k - 1).l) = 0
       /\ LayoutAfter(k).lc > 0


Moved == call.op \in {"left", "right", "up", "down", "home", "end"}

\* C37: the Pos a movement returns is the visual position of its index:
\* index(p.index) = p; so end applied to the index that end returned gives
\* the same Pos again.
C37_MovementAgreesWithIndex ==
  (Moved /\ call.ret.kind = "pos") =>
    /\ index(Self, call.ret.pos.index) = call.ret.pos
    /\ call.op = "end" => end(Self, call.ret.pos.index) = call.ret.pos


\* The step is a key event that key() handled to its end.
KeyHandled == call'.op = "key" /\ call'.ret.kind # "panic"

\* C33: Delete mode is entered only by Ctrl-D; a movement is applied with
\* Operation::Delete, and a movement key shortens the text, only when the
\* mode was Delete; after every key event but Ctrl-D and quit the mode is
\* Normal, so the key after a deleting movement does not delete by movement.
C33_DeleteModeOneShot ==
  [][KeyHandled =>
       /\ (mode = "Normal" /\ mode' = "Delete") => call'.c = "CtrlD"
       /\ call'.c \notin {"CtrlD", "CtrlQ"} => mode' = "Normal"
       /\ call'.c = "CtrlD" => mode' = "Delete"
       /\ call'.o = "Delete" => (mode = "Delete" /\ call'.c \in MoveKeys)
       /\ (call'.c \in MoveKeys /\ text' # text) => mode = "Delete"
       /\ (call.op = "key" /\ call.o = "Delete") => call'.o # "Delete"]_vars

\* Ctrl-D and then a movement key have deleted text, and the mode is Normal.
C33_Witness ==
  /\ call.op = "key"
  /\ call.o = "Delete"
  /\ Len(text) < Len(call.pre)
  /\ mode = "Normal"


\* C40: an exec that returns an error leaves the Context as it found it.
C40_FailedExecKeepsContext ==
  (rcall.op = "exec" /\ rcall.err # NoErr) => cxt = rcall.pre

====
